---- MODULE Spec2Model ----
(***************************************************************************)
(* The POM TECH page of src/sw.js as a state machine: the calendar and     *)
(* reminder engine (the part from "CALENDAR & EVENT MANAGEMENT" on), with  *)
(* the browser's time zone as a value the page cannot choose, and the      *)
(* service worker at the head of the file (install, fetch, activate) with  *)
(* the Cache Storage it keeps and the requests in flight; and, of the rest *)
(* of the page, the resource viewer with the gallery's slider intervals    *)
(* and the chat window with the runs of its submit handler.                *)
(*                                                                         *)
(* Strings are sequences of one-character strings, so that trim, split,    *)
(* localeCompare, parseInt and the HTML parse of innerHTML are computed    *)
(* rather than assumed.                                                    *)
(***************************************************************************)
EXTENDS Integers, Sequences, FiniteSets, TLC

\* ------------------------------------------------------------------ bounds
\* most events the store holds at once (the add button is not pressed beyond)
MaxEvents == 2
\* most confirm-yes listeners registered and not yet run
MaxPending == 1
\* most confirm-yes listeners under SpecConfirm, where a dismissed
\* confirmation leaves its listener behind
MaxStale == 2
\* most events the store holds at once under SpecRemind and SpecRoll
MaxRemindEvents == 1
\* months the user pages away from the month of the page load
MaxNav == 1
\* manifest entries the model installs
ManifestLen == 2
\* install attempts: registrations of the worker by page loads
MaxInstalls == 2
\* requests the page makes
MaxRequests == 2
\* times the gallery is loaded into the resource viewer
MaxGalleryOpens == 2
\* clicks on resource items whose 400 ms timeout has not fired yet
MaxQueued == 2
\* chat submissions, chunks in the stream of one, and failed tries to
\* create the chat session
MaxSubmissions == 2
MaxChunks == 2
MaxInitErrors == 1

\* ------------------------------------------------------------- characters
Digits == <<"0", "1", "2", "3", "4", "5", "6", "7", "8", "9">>

IsDigit(c) == \E i \in 1..10 : Digits[i] = c

DigitVal(c) == (CHOOSE i \in 1..10 : Digits[i] = c) - 1

IsAlpha(c) == c \in {"a", "b", "s", "t", "r", "o", "n", "g", "e"}

\* collation rank of a character: white space, punctuation, symbols, digits,
\* letters, in that order (the order String.prototype.localeCompare uses)
CharRank(c) ==
    CASE c = " " -> 0
      [] c = ":" -> 1
      [] c = "-" -> 2
      [] c = "/" -> 3
      [] c = "<" -> 4
      [] c = ">" -> 5
      [] IsDigit(c) -> 6 + DigitVal(c)
      [] c = "a" -> 16
      [] c = "b" -> 17
      [] c = "e" -> 18
      [] c = "g" -> 19
      [] c = "n" -> 20
      [] c = "o" -> 21
      [] c = "r" -> 22
      [] c = "s" -> 23
      [] c = "t" -> 24

\* a.localeCompare(b): negative, zero or positive
RECURSIVE localeCompare(_, _)
localeCompare(a, b) ==
    IF a = <<>> /\ b = <<>> THEN 0
    ELSE IF a = <<>> THEN -1
    ELSE IF b = <<>> THEN 1
    ELSE IF CharRank(Head(a)) < CharRank(Head(b)) THEN -1
    ELSE IF CharRank(Head(a)) > CharRank(Head(b)) THEN 1
    ELSE localeCompare(Tail(a), Tail(b))

\* String.prototype.trim
RECURSIVE TrimLeft(_)
TrimLeft(s) == IF s # <<>> /\ Head(s) = " " THEN TrimLeft(Tail(s)) ELSE s

RECURSIVE TrimRight(_)
TrimRight(s) ==
    IF s # <<>> /\ s[Len(s)] = " " THEN TrimRight(SubSeq(s, 1, Len(s) - 1)) ELSE s

trim(s) == TrimRight(TrimLeft(s))

\* s.split(':'): the pieces between the colons
RECURSIVE split(_, _)
split(s, cur) ==
    IF s = <<>> THEN <<cur>>
    ELSE IF Head(s) = ":" THEN <<cur>> \o split(Tail(s), <<>>)
    ELSE split(Tail(s), Append(cur, Head(s)))

NaN == 0 - 1

\* Number(s) of a string of decimal digits (the empty string gives 0)
RECURSIVE NumberAcc(_, _)
NumberAcc(s, acc) ==
    IF s = <<>> THEN acc
    ELSE IF ~IsDigit(Head(s)) THEN NaN
    ELSE NumberAcc(Tail(s), 10 * acc + DigitVal(Head(s)))

Number(s) == NumberAcc(s, 0)

\* parseInt(s, 10): the leading digits, NaN when there are none
RECURSIVE LeadingDigits(_)
LeadingDigits(s) ==
    IF s # <<>> /\ IsDigit(Head(s)) THEN <<Head(s)>> \o LeadingDigits(Tail(s))
    ELSE <<>>

parseInt(s) ==
    IF LeadingDigits(TrimLeft(s)) = <<>> THEN NaN
    ELSE NumberAcc(LeadingDigits(TrimLeft(s)), 0)

\* -------------------------------------------------------------- calendar
IsLeap(y) == (y % 4 = 0 /\ y % 100 # 0) \/ y % 400 = 0

\* days of month m (0-based) of year y: new Date(y, m + 1, 0).getDate()
daysInMonth(y, m) ==
    IF m = 1 THEN (IF IsLeap(y) THEN 29 ELSE 28)
    ELSE IF m \in {3, 5, 8, 10} THEN 30
    ELSE 31

\* the civil date n days after date dt = <<year, month, day>>
RECURSIVE AddDays(_, _)
AddDays(dt, n) ==
    IF n = 0 THEN dt
    ELSE IF dt[3] < daysInMonth(dt[1], dt[2]) THEN AddDays(<<dt[1], dt[2], dt[3] + 1>>, n - 1)
    ELSE IF dt[2] < 11 THEN AddDays(<<dt[1], dt[2] + 1, 1>>, n - 1)
    ELSE AddDays(<<dt[1] + 1, 0, 1>>, n - 1)

\* the date key `${year}-${month}-${day}`: the three numbers unpadded with a
\* separator between, which is one-to-one with the triple
DateKey(y, m, d) == <<y, m, d>>

MsPerMinute == 60 * 1000
MsPerDay == 24 * 60 * MsPerMinute


\* ------------------------------------------------------------ the clock
\* The clock counts milliseconds from the midnight (UTC+10) that began the
\* day the page was first loaded, origin; Date.now() is this count plus a
\* fixed number, so two readings are equal exactly when the counts are.
StartDate == <<2024, 5, 10>>

At(h, mi) == (h * 60 + mi) * MsPerMinute

\* the readings at which the specifications look at the program
EditInstants == {At(13, 29), At(13, 31)}

RemindInstants == {At(13, 29), At(13, 31), At(14, 0) + 1}

\* readings of the day of the page load and around the midnights that
\* follow it: 13:31, 23:00:01, midnight, a second past it and 13:31 of the
\* next day, and a second past the midnight after
RollInstants ==
    {At(13, 29), At(13, 31), At(23, 0) + 1000, MsPerDay, MsPerDay + 1000,
     MsPerDay + At(13, 31), 2 * MsPerDay + 1000}

StartClock == At(13, 29)

\* the dates on which the page is loaded, for the month buttons: StartDate,
\* a 31st whose month follows a shorter one, and the 31st of December
LoadDates == {StartDate, <<2024, 2, 31>>, <<2024, 11, 31>>}

\* null, and a value that may be null: <<>> or <<v>>
Null == <<>>

\* what the user can type or pick in the event dialog
none == <<"n", "o", "n", "e">>
T0900 == <<"0", "9", ":", "0", "0">>
T1400 == <<"1", "4", ":", "0", "0">>
R30 == <<"3", "0">>
\* <<text, time, reminder>> as left in the dialog's three fields
FormInputs ==
    {<<<<" ", "a">>, <<>>, none>>,
     <<<<"<", "a">>, T0900, none>>,
     <<<<"a", " ">>, T1400, R30>>,
     <<<<" ">>, T0900, none>>,
     <<<<"a">>, <<>>, R30>>}

\* an event with a time and one with none, for the order of a day's list
NavForms ==
    {<<<<"a">>, T1400, none>>,
     <<<<"b">>, <<>>, none>>}

\* the fields of an edit that keeps the reminder, with the time kept or
\* cleared, and of one that clears both
EditForms ==
    {<<<<"a">>, T1400, R30>>,
     <<<<"a">>, <<>>, R30>>,
     <<<<"b">>, <<>>, none>>}

RemindForms ==
    {<<<<"a">>, T1400, R30>>,
     <<<<"a">>, T1400, none>>}
\* the day cells whose buttons the user presses
InputDays == {10, 11}

VARIABLES
    clock,                \* milliseconds since midnight (UTC+10) of origin
    origin,               \* the date of UTC+10 on which the page was first loaded
    zone,                 \* the time zone of the browser
    events,               \* date key -> sequence of events
    persisted,            \* localStorage item 'calendarEvents'
    sessionNotifiedIds,   \* ids notified in this session
    currentEditingEvent,  \* Null or [date, id] of the open event dialog
    displayedDate,        \* <<year, month, day>> of the month on display
    rendered,             \* the month grid last built by generateCalendar
    confirmOpen,          \* the delete confirmation dialog is visible
    yesListeners,         \* click listeners now on confirmYesBtn, in order
    rolloverDue,          \* clock reading at which the midnight timer is due
    notifyCount,          \* id -> notifications shown this session (history)
    lastOp,               \* what ran last (history)
    worker,               \* the service worker registered from this script
    caches,               \* CacheStorage of the origin: the caches in order of creation
    requests,             \* the requests the page has made, each with its progress
    failedInstalls,       \* worker instances whose install was rejected (history)
    sweptCaches,          \* names of the caches that activation deleted (history)
    menuOpen,             \* the sliding menu panel has class 'open'
    pendingOpens,         \* template ids of the 400 ms timeouts not yet fired
    viewer,               \* the resource viewer: visible, and the template in it
    panelSliderIntervals, \* window.panelSliderIntervals (undefined reads as <<>>)
    runningIntervals,     \* interval id -> currentSlide of its slider, per running interval
    nextIntervalId,       \* the id window.setInterval returns next
    chat,                 \* the chat session has been created
    chatbotOpen,          \* the chat window has class 'open'
    chatbotMessages,      \* the children of #chatbot-messages, in order
    submissions           \* the runs of the submit handler, each with its progress

\* the page's variables, and the variables of the service worker's context
pageVars == <<clock, origin, zone, events, persisted, sessionNotifiedIds, currentEditingEvent,
              displayedDate, rendered, confirmOpen, yesListeners, rolloverDue,
              notifyCount, lastOp>>

workerVars == <<worker, caches, requests, failedInstalls, sweptCaches>>

viewerVars == <<menuOpen, pendingOpens, viewer, panelSliderIntervals, runningIntervals,
                nextIntervalId>>

chatVars == <<chat, chatbotOpen, chatbotMessages, submissions>>

vars == <<pageVars, workerVars, viewerVars, chatVars>>

\* what an operation of the page leaves alone besides the page's own
\* variables, and the same for a step of the worker
besidesPage == <<origin, zone, workerVars, viewerVars, chatVars>>

besidesWorker == <<pageVars, viewerVars, chatVars>>

\* the same for the resource viewer and for the chat
besidesViewer == <<pageVars, workerVars, chatVars>>

besidesChat == <<pageVars, workerVars, viewerVars>>

\* A Date is modelled by its time value on the scale of the clock. A zone
\* is [at, before, after]: the local wall clock minus the wall clock of
\* UTC+10, before and from the instant at (a zone that never changes its
\* clocks has before = after). getTimezoneOffset() * 60000 + 3600000 * 10
\* is the negative of that difference.
FixedZone == [at |-> 0, before |-> 0, after |-> 0]

\* a zone 15 hours behind UTC+10 that puts its clocks forward by an hour
\* at 17:00 (UTC+10) of the first day, which is 02:00 on its own wall clock
DstZone == [at |-> At(17, 0), before |-> 0 - At(15, 0), after |-> 0 - At(14, 0)]

\* a zone 2 hours ahead of UTC+10 that puts its clocks forward by an hour
\* at 00:00 (UTC+10) of the second day, which is 02:00 on its own wall clock
DstZoneEast == [at |-> MsPerDay, before |-> At(2, 0), after |-> At(3, 0)]

ZoneDelta(u) == IF u < zone.at THEN zone.before ELSE zone.after

\* the local wall clock at time value u, in ms since midnight of origin:
\* what getFullYear, getMonth, getDate and getHours read
LocalWall(u) == u + ZoneDelta(u)

\* the time value of local wall clock w, as new Date(y, m, d, h, mi),
\* setDate and setHours compute it: a wall time that comes twice is the
\* earlier instant, one that is skipped is read with the offset before
FromLocal(w) ==
    IF w - zone.before < zone.at THEN w - zone.before
    ELSE IF w - zone.after >= zone.at THEN w - zone.after
    ELSE w - zone.before

\* the time value of getPngDate() at reading c:
\* now.getTime() + now.getTimezoneOffset() * 60000 + 3600000 * 10
PngTime(c) == c - ZoneDelta(c)

\* getPngDate() as its local fields show it: <<year, month, day, ms of day>>
getPngDate(c) ==
    AddDays(origin, LocalWall(PngTime(c)) \div MsPerDay)
        \o <<LocalWall(PngTime(c)) % MsPerDay>>

todayStr(c) == DateKey(getPngDate(c)[1], getPngDate(c)[2], getPngDate(c)[3])

\* Date.now(), less the fixed number
DateNow(c) == c

EmptyStore == [k \in {} |-> <<>>]

\* JSON.stringify(events): the text is modelled by its content, a set of
\* (key, list of (id, text, time, reminder)) pairs
Stringify(store) ==
    {<<k, [i \in 1..Len(store[k]) |->
            <<store[k][i].id, store[k][i].text, store[k][i].time, store[k][i].reminder>>]>>
        : k \in DOMAIN store}

\* a reload that reads every event back with no reminder
ParseStoreNoReminder(p) ==
    IF p = Null THEN EmptyStore
    ELSE [k \in {pr[1] : pr \in p[1]} |->
            LET l == (CHOOSE pr \in p[1] : pr[1] = k)[2]
            IN  [i \in 1..Len(l) |->
                    [id |-> l[i][1], text |-> l[i][2], time |-> l[i][3], reminder |-> none]]]

\* JSON.parse(localStorage.getItem('calendarEvents')) || {}
ParseStore(p) ==
    IF p = Null THEN EmptyStore
    ELSE [k \in {pr[1] : pr \in p[1]} |->
            LET l == (CHOOSE pr \in p[1] : pr[1] = k)[2]
            IN  [i \in 1..Len(l) |->
                    [id |-> l[i][1], text |-> l[i][2], time |-> l[i][3], reminder |-> l[i][4]]]]

\* saveEvents(): the item set by localStorage.setItem
saveEvents(store) == <<Stringify(store)>>

TotalEvents(store) ==
    LET RECURSIVE Sum(_)
        Sum(ks) == IF ks = {} THEN 0
                   ELSE LET k == CHOOSE x \in ks : TRUE
                        IN  Len(store[k]) + Sum(ks \ {k})
    IN  Sum(DOMAIN store)


\* ------------------------------------------------------------ rendering
\* the text a node shows after its innerHTML is set to html: the HTML
\* tokenizer's data state, with tags giving no text, a "<" that starts no
\* tag kept as text, and a tag cut off by the end of input dropped
RECURSIVE SkipToGt(_)
RECURSIVE TextContent(_)
SkipToGt(s) ==
    IF s = <<>> THEN <<>>
    ELSE IF Head(s) = ">" THEN TextContent(Tail(s))
    ELSE SkipToGt(Tail(s))

TextContent(s) ==
    IF s = <<>> THEN <<>>
    ELSE IF Head(s) # "<" THEN <<Head(s)>> \o TextContent(Tail(s))
    ELSE LET r == Tail(s)
         IN  IF r # <<>> /\ IsAlpha(Head(r)) THEN SkipToGt(r)
             ELSE IF r # <<>> /\ Head(r) = "/" THEN
                 (IF Tail(r) = <<>> THEN <<"<", "/">>
                  ELSE IF Head(Tail(r)) = ">" THEN TextContent(Tail(Tail(r)))
                  ELSE SkipToGt(Tail(r)))
             ELSE <<"<">> \o TextContent(r)

StrongOpen == <<"<", "s", "t", "r", "o", "n", "g", ">">>
StrongClose == <<"<", "/", "s", "t", "r", "o", "n", "g", ">">>

\* the markup assigned to eventText.innerHTML
EventHtml(e) ==
    (IF e.time # <<>> THEN StrongOpen \o e.time \o StrongClose \o <<" ", "-", " ">>
     ELSE <<>>) \o e.text

\* one rendered event row: the id its menu button carries, the time it was
\* built from and the text it shows
EventEl(e) == [id |-> e.id, time |-> e.time, text |-> TextContent(EventHtml(e))]

\* the comparator of the sort in generateCalendar
CompareEvents(a, b) == localeCompare(a.time, b.time)

\* a render that lists the events in the order they are stored
SortEventsNone(l) == l

\* Array.prototype.sort with that comparator (a stable sort)
RECURSIVE InsertSorted(_, _)
InsertSorted(e, l) ==
    IF l = <<>> THEN <<e>>
    ELSE IF CompareEvents(e, Head(l)) < 0 THEN <<e>> \o l
    ELSE <<Head(l)>> \o InsertSorted(e, Tail(l))

RECURSIVE SortAcc(_, _)
SortAcc(l, acc) ==
    IF l = <<>> THEN acc ELSE SortAcc(Tail(l), InsertSorted(Head(l), acc))

SortEvents(l) == SortAcc(l, <<>>)

InMonth(k, y, m) == k[1] = y /\ k[2] = m /\ k[3] \in 1..daysInMonth(y, m)

\* the store after generateCalendar(date): the lists of the month's dates
\* are sorted in place
SortedStore(store, date) ==
    [k \in DOMAIN store |->
        IF InMonth(k, date[1], date[2]) THEN SortEvents(store[k]) ELSE store[k]]

\* new Date(year, month, day).getDay(): 0 for a Sunday (the Gregorian
\* weekday, by Sakamoto's table)
getDay(y, m, d) ==
    LET t == <<0, 3, 2, 5, 0, 3, 5, 1, 4, 6, 2, 4>>
        yy == IF m < 2 THEN y - 1 ELSE y
    IN  (yy + yy \div 4 - yy \div 100 + yy \div 400 + t[m + 1] + d) % 7

\* the inner loop of generateCalendar from column j of row i on: a td is
\* left empty (0) before firstDay in row 0 and once day is past the
\* month's end, and holds the day number otherwise
RECURSIVE RowCells(_, _, _, _, _)
RowCells(i, j, day, firstDay, dim) ==
    IF j = 7 THEN <<>>
    ELSE IF (i = 0 /\ j < firstDay) \/ day > dim
         THEN <<0>> \o RowCells(i, j + 1, day, firstDay, dim)
         ELSE <<day>> \o RowCells(i, j + 1, day + 1, firstDay, dim)

\* the outer loop from row i on: at most six rows, and no row after the
\* one in which day passes the month's end
RECURSIVE GridRows(_, _, _, _)
GridRows(i, day, firstDay, dim) ==
    IF i = 6 THEN <<>>
    ELSE LET row == RowCells(i, 0, day, firstDay, dim)
             next == day + Cardinality({j \in 1..7 : row[j] # 0})
         IN  <<row>> \o (IF next > dim THEN <<>> ELSE GridRows(i + 1, next, firstDay, dim))

\* the grid generateCalendar(date) builds at clock reading c: the rows of
\* td cells, the event rows of each day cell, and the cells marked
\* current-day
generateCalendar(store, date, c) ==
    [year |-> date[1],
     month |-> date[2],
     rows |-> GridRows(0, 1, getDay(date[1], date[2], 1), daysInMonth(date[1], date[2])),
     cells |-> [d \in 1..daysInMonth(date[1], date[2]) |->
                  LET k == DateKey(date[1], date[2], d)
                  IN  IF k \in DOMAIN store
                      THEN [i \in 1..Len(store[k]) |-> EventEl(SortEvents(store[k])[i])]
                      ELSE <<>>],
     current |-> {d \in 1..daysInMonth(date[1], date[2]) :
                    DateKey(date[1], date[2], d) = todayStr(c)}]

\* the event rows on display: (date key, id) pairs
RenderedRows ==
    UNION {{<<DateKey(rendered.year, rendered.month, d), rendered.cells[d][i].id>> :
                i \in 1..Len(rendered.cells[d])} : d \in DOMAIN rendered.cells}


\* ------------------------------------------------------- event dialog
\* a value of lastOp: what ran (a scan, a save click taken or refused, a
\* Yes answer, a month button, the rollover callback, a page load, or
\* something else), with the ids a scan notified or the field values a
\* save stored, and the ids notified by the scans that ran directly before
\* it with nothing in between
Op(name, arg) == [op |-> name, arg |-> arg, before |-> {}]

\* openEventModal(date, event): the id is the event's, or Date.now()
openEventModal(date, id) == <<[date |-> date, id |-> id]>>

\* the "+" button of day cell d of the grid on display
OpenAdd(d) ==
    /\ d \in DOMAIN rendered.cells
    /\ currentEditingEvent' =
          openEventModal(DateKey(rendered.year, rendered.month, d), DateNow(clock))
    /\ lastOp' = Op("other", {})
    /\ UNCHANGED <<clock, events, persisted, sessionNotifiedIds, displayedDate, rendered,
                   confirmOpen, yesListeners, rolloverDue, notifyCount>>
    /\ UNCHANGED besidesPage

\* "Edit" in the menu of a row on display: showEventMenu, then its edit item
OpenEdit(row) ==
    /\ row \in RenderedRows
    /\ currentEditingEvent' = openEventModal(row[1], row[2])
    /\ lastOp' = Op("other", {})
    /\ UNCHANGED <<clock, events, persisted, sessionNotifiedIds, displayedDate, rendered,
                   confirmOpen, yesListeners, rolloverDue, notifyCount>>
    /\ UNCHANGED besidesPage

\* cancelEventBtn: closeEventModal
Cancel ==
    /\ currentEditingEvent # Null
    /\ currentEditingEvent' = Null
    /\ lastOp' = Op("other", {})
    /\ UNCHANGED <<clock, events, persisted, sessionNotifiedIds, displayedDate, rendered,
                   confirmOpen, yesListeners, rolloverDue, notifyCount>>
    /\ UNCHANGED besidesPage

\* a save handler that does not ask for a time when a reminder is set
SaveAcceptedNoTimeCheck(text, time, reminder, editing) ==
    ~(text = <<>> \/ editing = Null)

\* a save handler that lets an empty text through
SaveAcceptedNoTextCheck(text, time, reminder, editing) ==
    /\ editing # Null
    /\ ~(reminder # none /\ time = <<>>)

\* a save handler that asks for a time only when the event is new
SaveAcceptedTimeCheckOnCreate(text, time, reminder, editing) ==
    /\ ~(text = <<>> \/ editing = Null)
    /\ ~(/\ reminder # none /\ time = <<>>
         /\ ~(/\ editing[1].date \in DOMAIN events
              /\ \E i \in DOMAIN events[editing[1].date] :
                    events[editing[1].date][i].id = editing[1].id))

\* the two early returns of the save handler: TRUE when the save goes on
SaveAccepted(text, time, reminder, editing) ==
    /\ ~(text = <<>> \/ editing = Null)
    /\ ~(reminder # none /\ time = <<>>)

\* findIndex(e => e.id === id): 0 when there is none
FindIndex(l, id) ==
    IF \E i \in 1..Len(l) : l[i].id = id
    THEN CHOOSE i \in 1..Len(l) : l[i].id = id /\ \A j \in 1..(i - 1) : l[j].id # id
    ELSE 0

\* a save handler that pushes without looking for the id
UpsertAlwaysPush(l, id, text, time, reminder) ==
    Append(l, [id |-> id, text |-> text, time |-> time, reminder |-> reminder])

\* the list of a date after the save: replaced in place, or pushed
Upsert(l, id, text, time, reminder) ==
    IF FindIndex(l, id) > 0
    THEN [l EXCEPT ![FindIndex(l, id)] =
              [id |-> l[FindIndex(l, id)].id, text |-> text, time |-> time, reminder |-> reminder]]
    ELSE Append(l, [id |-> id, text |-> text, time |-> time, reminder |-> reminder])

ListOf(store, date) == IF date \in DOMAIN store THEN store[date] ELSE <<>>

\* the store with date mapped to list l
WithList(store, date, l) ==
    [k \in DOMAIN store \cup {date} |-> IF k = date THEN l ELSE store[k]]

\* saveEventBtn click, with raw text, time and reminder in the dialog's fields
Save(raw, time, reminder, maxEvents) ==
    /\ currentEditingEvent # Null
    /\ lastOp' = IF trim(raw) = <<>> \/ (reminder # none /\ time = <<>>)
                 THEN Op("saveInvalid", {})
                 ELSE Op("save", {<<trim(raw), time, reminder>>})
    /\ IF SaveAccepted(trim(raw), time, reminder, currentEditingEvent)
       THEN LET date == currentEditingEvent[1].date
                id == currentEditingEvent[1].id
                stored == WithList(events, date,
                                   Upsert(ListOf(events, date), id, trim(raw), time, reminder))
            IN  /\ TotalEvents(stored) <= maxEvents
                /\ persisted' = saveEvents(stored)
                /\ events' = SortedStore(stored, displayedDate)
                /\ rendered' = generateCalendar(stored, displayedDate, clock)
                /\ currentEditingEvent' = Null
       ELSE UNCHANGED <<events, persisted, rendered, currentEditingEvent>>
    /\ UNCHANGED <<clock, sessionNotifiedIds, displayedDate, confirmOpen, yesListeners,
                   rolloverDue, notifyCount>>
    /\ UNCHANGED besidesPage


\* ------------------------------------------------- delete confirmation
\* "Delete" in the menu of a row on display: showDeleteConfirmation(date, id)
\* shows the dialog and adds a once-listener to each of its two buttons.
\* Every listener on the No button only hides the dialog, so those are not
\* kept as state.
ShowDeleteConfirmation(row, maxPending) ==
    /\ row \in RenderedRows
    /\ Len(yesListeners) < maxPending
    /\ confirmOpen' = TRUE
    /\ yesListeners' = Append(yesListeners, [date |-> row[1], id |-> row[2]])
    /\ lastOp' = Op("other", {})
    /\ UNCHANGED <<clock, events, persisted, sessionNotifiedIds, currentEditingEvent,
                   displayedDate, rendered, rolloverDue, notifyCount>>
    /\ UNCHANGED besidesPage

\* events[date].filter(e => e.id !== eventId)
RECURSIVE FilterOut(_, _)
FilterOut(l, id) ==
    IF l = <<>> THEN <<>>
    ELSE IF Head(l).id # id THEN <<Head(l)>> \o FilterOut(Tail(l), id)
    ELSE FilterOut(Tail(l), id)

\* a Yes listener that leaves the emptied list under its key
DeleteEventNoPrune(store, date, id) ==
    [store EXCEPT ![date] = FilterOut(store[date], id)]

\* the store after the first two statements of the Yes listener
DeleteEvent(store, date, id) ==
    IF FilterOut(store[date], id) = <<>>
    THEN [k \in DOMAIN store \ {date} |-> store[k]]
    ELSE [store EXCEPT ![date] = FilterOut(store[date], id)]

\* one Yes listener run on st = [ev, ps, sn, done]; reading events[date] of
\* a key that is gone throws before anything is changed
YesListener(l, st, shown) ==
    IF l.date \notin DOMAIN st.ev THEN st
    ELSE [ev |-> SortedStore(DeleteEvent(st.ev, l.date, l.id), shown),
          ps |-> saveEvents(DeleteEvent(st.ev, l.date, l.id)),
          sn |-> st.sn \ {l.id},
          done |-> TRUE]

RECURSIVE RunYesListeners(_, _, _)
RunYesListeners(ls, st, shown) ==
    IF ls = <<>> THEN st
    ELSE RunYesListeners(Tail(ls), YesListener(Head(ls), st, shown), shown)

\* click on confirmYesBtn: every listener on it runs once and is removed
ConfirmYes ==
    /\ confirmOpen
    /\ LET st == RunYesListeners(yesListeners,
                    [ev |-> events, ps |-> persisted, sn |-> sessionNotifiedIds,
                     done |-> FALSE], displayedDate)
       IN  /\ events' = st.ev
           /\ persisted' = st.ps
           /\ sessionNotifiedIds' = st.sn
           /\ rendered' = IF st.done THEN generateCalendar(st.ev, displayedDate, clock)
                          ELSE rendered
           /\ confirmOpen' = ~st.done
    /\ lastOp' = Op("confirmYes", {})
    /\ yesListeners' = <<>>
    /\ UNCHANGED <<clock, currentEditingEvent, displayedDate, rolloverDue,
                   notifyCount>>
    /\ UNCHANGED besidesPage

\* click on confirmNoBtn: hideDeleteConfirmation; the Yes listeners stay
ConfirmNo ==
    /\ confirmOpen
    /\ confirmOpen' = FALSE
    /\ lastOp' = Op("other", {})
    /\ UNCHANGED <<clock, events, persisted, sessionNotifiedIds, currentEditingEvent,
                   displayedDate, rendered, yesListeners, rolloverDue, notifyCount>>
    /\ UNCHANGED besidesPage

\* ---------------------------------------------------------- reminders
\* new Date(y, m, d, hours, minutes).getTime() for the day of reading c
EventTime(e, c) ==
    FromLocal((LocalWall(PngTime(c)) \div MsPerDay) * MsPerDay
                + Number(split(e.time, <<>>)[1]) * 60 * MsPerMinute
                + Number(split(e.time, <<>>)[2]) * MsPerMinute)

\* a scan that does not wait for the lead time
NotifiesAnyTimeBefore(e, c, notified) ==
    /\ ~(e.reminder = <<>> \/ e.reminder = none \/ e.time = <<>> \/ e.id \in notified)
    /\ ~(PngTime(c) > EventTime(e, c))

\* a scan that does not look at the ids already notified
NotifiesAgain(e, c, notified) ==
    /\ ~(e.reminder = <<>> \/ e.reminder = none \/ e.time = <<>>)
    /\ ~(PngTime(c) > EventTime(e, c))
    /\ parseInt(e.reminder) # NaN
    /\ PngTime(c) >= EventTime(e, c) - parseInt(e.reminder) * 60 * 1000

\* the body of the forEach of checkReminders: TRUE when it notifies event e
Notifies(e, c, notified) ==
    /\ ~(e.reminder = <<>> \/ e.reminder = none \/ e.time = <<>> \/ e.id \in notified)
    /\ ~(PngTime(c) > EventTime(e, c))
    /\ parseInt(e.reminder) # NaN
    /\ PngTime(c) >= EventTime(e, c) - parseInt(e.reminder) * 60 * 1000

\* the forEach over today's events: the ids notified, in order
RECURSIVE ScanEvents(_, _, _)
ScanEvents(l, c, notified) ==
    IF l = <<>> THEN <<>>
    ELSE IF Notifies(Head(l), c, notified)
         THEN <<Head(l).id>> \o ScanEvents(Tail(l), c, notified \cup {Head(l).id})
         ELSE ScanEvents(Tail(l), c, notified)

Range(f) == {f[i] : i \in DOMAIN f}

\* checkReminders() at reading c: the ids it calls showNotification for
checkReminders(store, c, notified) ==
    Range(ScanEvents(ListOf(store, todayStr(c)), c, notified))

\* the 60 s interval timer fires checkReminders; the timer's phase is set by
\* the moment of the page load and it may fire late, so a scan can come at
\* any reading of the clock
CheckReminders ==
    /\ LET emitted == checkReminders(events, clock, sessionNotifiedIds)
       IN  /\ sessionNotifiedIds' = sessionNotifiedIds \cup emitted
           /\ notifyCount' = [seen |-> notifyCount.seen \cup emitted,
                              again |-> notifyCount.again \cup (notifyCount.seen \cap emitted)]
           /\ lastOp' = [op |-> "scan", arg |-> emitted,
                         before |-> IF lastOp.op = "scan" THEN lastOp.arg \cup lastOp.before
                                    ELSE {}]
    /\ UNCHANGED <<clock, events, persisted, currentEditingEvent, displayedDate, rendered,
                   confirmOpen, yesListeners, rolloverDue>>
    /\ UNCHANGED besidesPage


\* ------------------------------------------------ timers and navigation
\* tomorrow of scheduleMidnightUpdate(): the copy of now after
\* setDate(now.getDate() + 1) and setHours(0, 0, 0, 0)
Tomorrow(now) ==
    FromLocal((LocalWall(FromLocal(LocalWall(now) + MsPerDay)) \div MsPerDay) * MsPerDay)

\* scheduleMidnightUpdate() at reading c: a timeout of msUntilMidnight + 1000;
\* day is the day of UTC+10, counted from origin, on which it is set
\* (history)
scheduleMidnightUpdate(c) ==
    [kind |-> "timeout",
     at |-> c + (Tomorrow(PngTime(c)) - PngTime(c)) + 1000,
     day |-> c \div MsPerDay]

\* the date part of getPngDate()
Today(c) == <<getPngDate(c)[1], getPngDate(c)[2], getPngDate(c)[3]>>

\* the rollover callback, run by the timeout and then by the 24 h interval
\* that the timeout's callback starts; a timer fires at or after its time
MidnightUpdate ==
    /\ clock >= rolloverDue.at
    /\ displayedDate' = Today(clock)
    /\ rendered' = generateCalendar(events, Today(clock), clock)
    /\ events' = SortedStore(events, Today(clock))
    /\ rolloverDue' = [kind |-> "interval",
                       at |-> (IF rolloverDue.kind = "timeout" THEN clock ELSE rolloverDue.at)
                                + MsPerDay,
                       day |-> rolloverDue.day]
    /\ lastOp' = Op("rollover", {})
    /\ UNCHANGED <<clock, persisted, sessionNotifiedIds, currentEditingEvent, confirmOpen,
                   yesListeners, notifyCount>>
    /\ UNCHANGED besidesPage

\* Date.prototype.setMonth(m) on <<year, month, day>>, m in -1..12: the
\* month is carried into the year and a day past the month's end into the
\* next month
setMonth(date, m) ==
    LET y == IF m < 0 THEN date[1] - 1 ELSE IF m > 11 THEN date[1] + 1 ELSE date[1]
        mm == (m + 12) % 12
    IN  IF date[3] <= daysInMonth(y, mm) THEN <<y, mm, date[3]>>
        ELSE IF mm < 11 THEN <<y, mm + 1, date[3] - daysInMonth(y, mm)>>
        ELSE <<y + 1, 0, date[3] - daysInMonth(y, mm)>>

MonthIndex(date) == date[1] * 12 + date[2]

\* the months the user pages to lie within MaxNav months of origin's
NavAllowed(date) ==
    /\ MonthIndex(date) - MonthIndex(origin) <= MaxNav
    /\ MonthIndex(origin) - MonthIndex(date) <= MaxNav

\* click on prev-month (delta = -1) or next-month (delta = 1)
NavigateMonth(delta) ==
    /\ NavAllowed(setMonth(displayedDate, displayedDate[2] + delta))
    /\ displayedDate' = setMonth(displayedDate, displayedDate[2] + delta)
    /\ rendered' = generateCalendar(events, displayedDate', clock)
    /\ events' = SortedStore(events, displayedDate')
    /\ lastOp' = Op("navigate", {delta})
    /\ UNCHANGED <<clock, persisted, sessionNotifiedIds, currentEditingEvent, confirmOpen,
                   yesListeners, rolloverDue, notifyCount>>
    /\ UNCHANGED besidesPage

PrevMonth == NavigateMonth(0 - 1)

NextMonth == NavigateMonth(1)

\* time passes to the next instant the model looks at
Tick(instants) ==
    /\ \E i \in instants : i > clock
    /\ clock' = CHOOSE i \in instants : i > clock /\ \A j \in instants : j > clock => i <= j
    /\ lastOp' = Op("other", {})
    /\ UNCHANGED <<events, persisted, sessionNotifiedIds, currentEditingEvent, displayedDate,
                   rendered, confirmOpen, yesListeners, rolloverDue, notifyCount>>
    /\ UNCHANGED besidesPage

\* the resource viewer before anything was opened in it
NoViewer == [visible |-> FALSE, content |-> ""]

\* the state the script's top level and its INITIALIZATION section leave
\* when the page is loaded at reading c with item p in localStorage
Loaded(c, p) ==
    /\ clock' = c
    /\ persisted' = p
    /\ events' = SortedStore(ParseStore(p), Today(c))
    /\ currentEditingEvent' = Null
    /\ displayedDate' = Today(c)
    /\ rendered' = generateCalendar(ParseStore(p), Today(c), c)
    /\ confirmOpen' = FALSE
    /\ yesListeners' = <<>>
    /\ rolloverDue' = scheduleMidnightUpdate(c)
    /\ sessionNotifiedIds' = checkReminders(SortedStore(ParseStore(p), Today(c)), c, {})
    /\ notifyCount' = [seen |-> sessionNotifiedIds', again |-> {}]
    /\ menuOpen' = FALSE
    /\ pendingOpens' = <<>>
    /\ viewer' = NoViewer
    /\ panelSliderIntervals' = <<>>
    /\ runningIntervals' = <<>>
    /\ nextIntervalId' = 1
    /\ chat' = FALSE
    /\ chatbotOpen' = FALSE
    /\ chatbotMessages' = <<>>
    /\ submissions' = <<>>

\* the page is reloaded: a new session over the same localStorage
Reload ==
    /\ Loaded(clock, persisted)
    /\ lastOp' = Op("load", {})
    /\ UNCHANGED <<origin, zone, workerVars>>


\* ------------------------------------------------------ resource viewer
\* the templates the resource items of the menu name
GalleryTemplate == "gallery-template"

TemplateIds == {GalleryTemplate, "pdf-template"}

\* the sliders initImageGalleryPageLogic sets up (team A, team B), and the
\* slides of each: images.slice(0, 3)
GallerySliders == 2

SlidesPerSlider == 3

\* click on the menu icon: openPanelSystem
OpenPanelSystem ==
    /\ ~menuOpen
    /\ menuOpen' = TRUE
    /\ UNCHANGED <<pendingOpens, viewer, panelSliderIntervals, runningIntervals,
                   nextIntervalId>>
    /\ UNCHANGED besidesViewer

\* click on a resource item that has a template id, in the open panel or
\* in the panel that is still sliding out after a click: closePanelSystem,
\* and openResourceViewer 400 ms later
ResourceItemClick(templateId, maxQueued) ==
    /\ menuOpen \/ pendingOpens # <<>>
    /\ Len(pendingOpens) < maxQueued
    /\ menuOpen' = FALSE
    /\ pendingOpens' = Append(pendingOpens, templateId)
    /\ UNCHANGED <<viewer, panelSliderIntervals, runningIntervals, nextIntervalId>>
    /\ UNCHANGED besidesViewer

\* intervals.forEach(clearInterval): the timers left running
ClearIntervals(running, intervals) ==
    [id \in DOMAIN running \ Range(intervals) |-> running[id]]

\* the "clear gallery slider intervals" statement of openResourceViewer
ClearedOnOpen(templateId, running, intervals) ==
    IF templateId # GalleryTemplate /\ Len(intervals) > 0
    THEN [running |-> ClearIntervals(running, intervals), intervals |-> <<>>]
    ELSE [running |-> running, intervals |-> intervals]

\* the ids of the intervals the calls of initPanelSlider start, in order
NewIntervals(first) == [n \in 1..GallerySliders |-> first + n - 1]

\* initImageGalleryPageLogic(): window.panelSliderIntervals = [], then one
\* interval per slider, each slider on its first slide
GalleryRunning(running, first) ==
    [id \in DOMAIN running \cup Range(NewIntervals(first)) |->
        IF id \in Range(NewIntervals(first)) THEN 0 ELSE running[id]]

\* the 400 ms timeout of the oldest click fires: openResourceViewer(templateId)
OpenResourceViewer(maxGalleryOpens) ==
    /\ pendingOpens # <<>>
    /\ Head(pendingOpens) = GalleryTemplate =>
           nextIntervalId + GallerySliders <= 1 + maxGalleryOpens * GallerySliders
    /\ pendingOpens' = Tail(pendingOpens)
    /\ viewer' = [visible |-> TRUE, content |-> Head(pendingOpens)]
    /\ LET cleared == ClearedOnOpen(Head(pendingOpens), runningIntervals,
                                    panelSliderIntervals)
       IN  IF Head(pendingOpens) = GalleryTemplate
           THEN /\ panelSliderIntervals' = NewIntervals(nextIntervalId)
                /\ runningIntervals' = GalleryRunning(cleared.running, nextIntervalId)
                /\ nextIntervalId' = nextIntervalId + GallerySliders
           ELSE /\ panelSliderIntervals' = cleared.intervals
                /\ runningIntervals' = cleared.running
                /\ nextIntervalId' = nextIntervalId
    /\ UNCHANGED menuOpen
    /\ UNCHANGED besidesViewer

\* click on close-resource-viewer-btn: closeResourceViewer
CloseResourceViewer ==
    /\ viewer.visible
    /\ viewer' = [viewer EXCEPT !.visible = FALSE]
    /\ IF Len(panelSliderIntervals) > 0
       THEN /\ runningIntervals' = ClearIntervals(runningIntervals, panelSliderIntervals)
            /\ panelSliderIntervals' = <<>>
       ELSE UNCHANGED <<runningIntervals, panelSliderIntervals>>
    /\ UNCHANGED <<menuOpen, pendingOpens, nextIntervalId>>
    /\ UNCHANGED besidesViewer

\* a running interval fires: goToNext of its slider
IntervalFires(id) ==
    /\ id \in DOMAIN runningIntervals
    /\ runningIntervals' =
          [runningIntervals EXCEPT ![id] = (runningIntervals[id] + 1) % SlidesPerSlider]
    /\ UNCHANGED <<menuOpen, pendingOpens, viewer, panelSliderIntervals, nextIntervalId>>
    /\ UNCHANGED besidesViewer

\* ----------------------------------------------------------------- chat
\* what the user leaves in the chat input, and the text of a chunk
ChatInputs == {<<"h", "i", " ">>, <<" ">>}

ChunkTexts == {<<"x">>}

\* what sendMessageStream or its stream can throw
ChatErrors == {"429", "other"}

\* the element appendMessage(text, sender, options) creates for run n of
\* the submit handler (n = 0: outside any run); node is what tells the
\* elements of one run apart
Message(n, node, text, sender, isStreaming, isHTML) ==
    [run |-> n, node |-> node, sender |-> sender,
     text |-> IF text = "thinking" THEN <<>> ELSE text,
     html |-> text = "thinking" \/ isHTML,
     id |-> IF isStreaming THEN "streaming-bubble"
            ELSE IF text = "thinking" THEN "thinking-bubble" ELSE ""]

\* element.remove(): the list without the element, if it is in it
Remove(messages, n, node) ==
    SelectSeq(messages, LAMBDA el : ~(el.run = n /\ el.node = node))

\* the message of the catch block for an error
ErrorMessage(n, error) ==
    IF error = "429"
    THEN Message(n, "error", "Usage Limit Reached", "ai", FALSE, TRUE)
    ELSE Message(n, "error", "Sorry, I encountered an error. Please try again.",
                 "ai", FALSE, FALSE)

\* click on the chat button or on the window's close button:
\* toggleChatbot(forceOpen); opening creates the chat session when there is
\* none, and ai.chats.create may throw
ToggleChatbot(forceOpen, created, maxInitErrors) ==
    /\ chatbotOpen # forceOpen
    /\ chatbotOpen' = forceOpen
    /\ IF forceOpen /\ ~chat
       THEN IF created
            THEN chat' = TRUE /\ UNCHANGED chatbotMessages
            ELSE /\ Cardinality({i \in 1..Len(chatbotMessages) :
                                    chatbotMessages[i].run = 0}) < maxInitErrors
                 /\ chatbotMessages' =
                       Append(chatbotMessages,
                              Message(0, "error", "Error: Could not initialize AI chat.",
                                      "ai", FALSE, FALSE))
                 /\ UNCHANGED chat
       ELSE created /\ UNCHANGED <<chat, chatbotMessages>>
    /\ UNCHANGED submissions
    /\ UNCHANGED besidesChat

\* the statement after the for-await loop: the message list when the
\* stream of run n has ended
Finished(messages, n, aiBubble) ==
    [i \in 1..Len(messages) |->
        IF aiBubble /\ messages[i].run = n /\ messages[i].node = "ai"
        THEN [messages[i] EXCEPT !.id = ""] ELSE messages[i]]

\* submit of the chat form: the handler up to its first await
Submit(input, maxSubmissions) ==
    /\ chatbotOpen
    /\ ~(trim(input) = <<>> \/ ~chat)
    /\ Len(submissions) < maxSubmissions
    /\ LET n == Len(submissions) + 1
       IN  /\ chatbotMessages' =
                 chatbotMessages
                   \o <<Message(n, "user", trim(input), "user", FALSE, FALSE),
                        Message(n, "thinking", "thinking", "ai", FALSE, FALSE)>>
           /\ submissions' = Append(submissions,
                                    [pc |-> "send", firstChunk |-> TRUE, aiBubble |-> FALSE,
                                     chunks |-> 0])
    /\ UNCHANGED <<chat, chatbotOpen>>
    /\ UNCHANGED besidesChat

\* await chat.sendMessageStream(...) resolves with the stream
SendResolves(n) ==
    /\ n \in 1..Len(submissions)
    /\ submissions[n].pc = "send"
    /\ submissions' = [submissions EXCEPT ![n].pc = "stream"]
    /\ UNCHANGED <<chat, chatbotOpen, chatbotMessages>>
    /\ UNCHANGED besidesChat

\* the stream yields a chunk: one turn of the for-await loop
Chunk(n, chunkText, maxChunks) ==
    /\ n \in 1..Len(submissions)
    /\ submissions[n].pc = "stream"
    /\ submissions[n].chunks < maxChunks
    /\ IF submissions[n].firstChunk
       THEN chatbotMessages' =
                Append(Remove(chatbotMessages, n, "thinking"),
                       Message(n, "ai", chunkText, "ai", TRUE, FALSE))
       ELSE chatbotMessages' =
                [i \in 1..Len(chatbotMessages) |->
                    IF chatbotMessages[i].run = n /\ chatbotMessages[i].node = "ai"
                    THEN [chatbotMessages[i] EXCEPT !.text = @ \o chunkText]
                    ELSE chatbotMessages[i]]
    /\ submissions' = [submissions EXCEPT ![n].firstChunk = FALSE, ![n].aiBubble = TRUE,
                                          ![n].chunks = @ + 1]
    /\ UNCHANGED <<chat, chatbotOpen>>
    /\ UNCHANGED besidesChat

\* the stream ends: the loop is left and the handler returns
StreamEnds(n) ==
    /\ n \in 1..Len(submissions)
    /\ submissions[n].pc = "stream"
    /\ chatbotMessages' = Finished(chatbotMessages, n, submissions[n].aiBubble)
    /\ submissions' = [submissions EXCEPT ![n].pc = "done"]
    /\ UNCHANGED <<chat, chatbotOpen>>
    /\ UNCHANGED besidesChat

\* sendMessageStream rejects, or the stream throws: the catch block
Throws(n, error) ==
    /\ n \in 1..Len(submissions)
    /\ submissions[n].pc \in {"send", "stream"}
    /\ chatbotMessages' =
          Append(Remove(chatbotMessages, n, "thinking"), ErrorMessage(n, error))
    /\ submissions' = [submissions EXCEPT ![n].pc = "done"]
    /\ UNCHANGED <<chat, chatbotOpen>>
    /\ UNCHANGED besidesChat

\* ------------------------------------------------------ service worker
CACHE_NAME == "pom-tech-cache-v3"

\* the manifest: the first ManifestLen entries of urlsToCache
urlsToCache ==
    SubSeq(<<"/", "index.html", "logout.html", "src/index.css">>, 1, ManifestLen)

\* caches left by the deployments before this one, in order of creation
PreviousCaches ==
    {<<>>,
     <<[name |-> "pom-tech-cache-v2", entries |-> [u \in {"index.html"} |->
            [status |-> 200, type |-> "basic", body |-> 0]]]>>,
     <<[name |-> "pom-tech-cache-v1", entries |-> [u \in {} |-> 0]],
       [name |-> "pom-tech-cache-v2", entries |-> [u \in {"index.html"} |->
            [status |-> 200, type |-> "basic", body |-> 0]]]>>}

\* what the network answers: a response, <<r>>, or no response at all, Null
\* (fetch() rejects); a body is told from another by its number
Response(status, type, body) == [status |-> status, type |-> type, body |-> body]

NetworkOutcomes ==
    {Null, <<Response(200, "basic", 1)>>, <<Response(200, "basic", 2)>>,
     <<Response(200, "cors", 1)>>, <<Response(404, "basic", 1)>>,
     <<Response(0, "opaque", 1)>>}

InstallOutcomes == {Null, <<Response(200, "basic", 1)>>, <<Response(404, "basic", 1)>>}

\* the requests of the page, <<url, method>>: a manifest URL, a URL that is
\* not in the manifest, and a POST
PageRequests ==
    {<<"index.html", "GET">>, <<"assets/images/new.jpg", "GET">>, <<"index.html", "POST">>}

NoWorker == [gen |-> 0, state |-> "none"]

HasCache(cs, name) == \E i \in 1..Len(cs) : cs[i].name = name

\* caches.open(name): the cache is created when there is none of that name
CachesOpen(cs, name) ==
    IF HasCache(cs, name) THEN cs
    ELSE Append(cs, [name |-> name, entries |-> [u \in {} |-> 0]])

\* a put that leaves an entry that is already there
CachePutKeepFirst(cs, name, url, response) ==
    [i \in 1..Len(cs) |->
        IF cs[i].name = name
        THEN [cs[i] EXCEPT !.entries =
                 [u \in DOMAIN cs[i].entries \cup {url} |->
                     IF u \in DOMAIN cs[i].entries THEN cs[i].entries[u] ELSE response]]
        ELSE cs[i]]

\* cache.put(url, response) on the cache called name
CachePut(cs, name, url, response) ==
    [i \in 1..Len(cs) |->
        IF cs[i].name = name
        THEN [cs[i] EXCEPT !.entries =
                 [u \in DOMAIN cs[i].entries \cup {url} |->
                     IF u = url THEN response ELSE cs[i].entries[u]]]
        ELSE cs[i]]

\* cache.addAll(urls) with the answers the network gave: every response has
\* to be there with an ok status, or addAll rejects and stores nothing
AddAllOk(outcomes) ==
    \A i \in DOMAIN outcomes :
        outcomes[i] # Null /\ outcomes[i][1].status \in 200..299

\* the entries of one addAll, put in the order of the list; an entry whose
\* request got no ok response is left out
RECURSIVE PutEach(_, _, _, _)
PutEach(cs, name, urls, outcomes) ==
    IF urls = <<>> THEN cs
    ELSE PutEach(IF AddAllOk(<<Head(outcomes)>>)
                 THEN CachePut(cs, name, Head(urls), Head(outcomes)[1])
                 ELSE cs,
                 name, Tail(urls), Tail(outcomes))

\* an addAll that stores what it got before it rejects
CacheAddAllPartial(cs, name, urls, outcomes) == PutEach(cs, name, urls, outcomes)

CacheAddAll(cs, name, urls, outcomes) ==
    IF AddAllOk(outcomes) THEN PutEach(cs, name, urls, outcomes) ELSE cs

\* caches.match(request): the entry of the first cache, in order of
\* creation, that has one for the URL; Null when none has
CachesMatch(cs, url) ==
    IF \E i \in 1..Len(cs) : url \in DOMAIN cs[i].entries
    THEN LET i == CHOOSE j \in 1..Len(cs) :
                    /\ url \in DOMAIN cs[j].entries
                    /\ \A k \in 1..(j - 1) : url \notin DOMAIN cs[k].entries
         IN  <<cs[i].entries[url]>>
    ELSE Null

\* the page's load handler: navigator.serviceWorker.register('/sw.js')
\* starts an install when no instance of the worker is installed or active
Register ==
    /\ worker.state \in {"none", "redundant"}
    /\ worker.gen < MaxInstalls
    /\ worker' = [gen |-> worker.gen + 1, state |-> "installing"]
    /\ UNCHANGED <<caches, requests, failedInstalls, sweptCaches>>
    /\ UNCHANGED besidesWorker

\* the install listener, with the network's answer for each manifest entry:
\* waitUntil(caches.open(CACHE_NAME).then(cache => cache.addAll(urlsToCache)));
\* a rejected promise makes the instance redundant
Install(outcomes) ==
    /\ worker.state = "installing"
    /\ caches' = CacheAddAll(CachesOpen(caches, CACHE_NAME), CACHE_NAME,
                             urlsToCache, outcomes)
    /\ IF AddAllOk(outcomes)
       THEN /\ worker' = [worker EXCEPT !.state = "installed"]
            /\ UNCHANGED failedInstalls
       ELSE /\ worker' = [worker EXCEPT !.state = "redundant"]
            /\ failedInstalls' = failedInstalls \cup {worker.gen}
    /\ UNCHANGED <<requests, sweptCaches>>
    /\ UNCHANGED besidesWorker

\* the deployment after this one: the same script with the next cache name
\* and a manifest that has one more file
NEXT_CACHE_NAME == "pom-tech-cache-v4"

nextUrlsToCache == <<"index.html", "assets/images/new.jpg">>

\* the install listener of the next deployment's worker, which the browser
\* runs while this worker is the active one: caches.open of its own name
\* and addAll of its manifest
InstallNext(outcomes) ==
    /\ worker.state = "activated"
    /\ ~HasCache(caches, NEXT_CACHE_NAME)
    /\ caches' = CacheAddAll(CachesOpen(caches, NEXT_CACHE_NAME), NEXT_CACHE_NAME,
                             nextUrlsToCache, outcomes)
    /\ UNCHANGED <<worker, requests, failedInstalls, sweptCaches>>
    /\ UNCHANGED besidesWorker

\* an activate listener that sweeps every cache, its own as well
SweepCachesAll(cs) == <<>>

\* the activate listener: caches.delete for every name not on the whitelist
cacheWhitelist == {CACHE_NAME}

SweepCaches(cs) ==
    SelectSeq(cs, LAMBDA c : c.name \in cacheWhitelist)

Activate ==
    /\ worker.state = "installed"
    /\ caches' = SweepCaches(caches)
    /\ sweptCaches' = sweptCaches \cup
          ({caches[i].name : i \in 1..Len(caches)}
              \ {SweepCaches(caches)[i].name : i \in 1..Len(SweepCaches(caches))})
    /\ worker' = [worker EXCEPT !.state = "activated"]
    /\ UNCHANGED <<requests, failedInstalls>>
    /\ UNCHANGED besidesWorker

\* what the page has got for a request: nothing yet, a response, or a
\* network error
NoAnswer == [kind |-> "none", resp |-> Response(0, "error", 0)]

Answered(r) == [kind |-> "response", resp |-> r]

NetworkError == [kind |-> "error", resp |-> Response(0, "error", 0)]

\* a request of the page as the browser takes it up. With an active worker
\* a fetch event is dispatched and the fetch listener runs to its first
\* await: a request that is not a GET is left to the browser (the listener
\* returns without respondWith), a GET waits for caches.match (pc "match").
\* With no active worker the browser makes the request itself.
\*   handled: respondWith was called;   lookups, net, writes: the cache
\*   lookups, network requests and cache writes the listener has made;
\*   from: "cache" or "network", where the answer came from;
\*   network: what the network gave, <<response>>, and rejected: it gave none;
\*   pending: the clone handed to cache.put, not yet written
\* a listener that takes every method
NewRequestAnyMethod(url, method, active) ==
    [url |-> url, method |-> method,
     event |-> active,
     handled |-> active,
     pc |-> IF active THEN "match" ELSE "browser",
     lookups |-> 0, net |-> 0, writes |-> 0,
     answer |-> NoAnswer, from |-> "none",
     network |-> Null, rejected |-> FALSE, pending |-> Null]

NewRequest(url, method, active) ==
    [url |-> url, method |-> method,
     event |-> active,
     handled |-> active /\ ~(method # "GET"),
     pc |-> IF active /\ ~(method # "GET") THEN "match" ELSE "browser",
     lookups |-> 0, net |-> 0, writes |-> 0,
     answer |-> NoAnswer, from |-> "none",
     network |-> Null, rejected |-> FALSE, pending |-> Null]

PageRequest(url, method) ==
    /\ Len(requests) < MaxRequests
    /\ requests' = Append(requests, NewRequest(url, method, worker.state = "activated"))
    /\ UNCHANGED <<worker, caches, failedInstalls, sweptCaches>>
    /\ UNCHANGED besidesWorker

\* caches.match(event.request) resolves: a hit is the answer, a miss goes
\* on to fetch(event.request)
\* a listener that answers a hit from the cache and fetches all the same
MatchedRevalidate(r, cs) ==
    IF CachesMatch(cs, r.url) # Null
    THEN [r EXCEPT !.lookups = @ + 1, !.net = @ + 1,
                   !.answer = Answered(CachesMatch(cs, r.url)[1]),
                   !.from = "cache", !.pc = "fetch"]
    ELSE [r EXCEPT !.lookups = @ + 1, !.net = @ + 1, !.pc = "fetch"]

\* the request after the callback of caches.match has run
Matched(r, cs) ==
    IF CachesMatch(cs, r.url) # Null
    THEN [r EXCEPT !.lookups = @ + 1,
                   !.answer = Answered(CachesMatch(cs, r.url)[1]),
                   !.from = "cache", !.pc = "done"]
    ELSE [r EXCEPT !.lookups = @ + 1, !.net = @ + 1, !.pc = "fetch"]

MatchResolves(i) ==
    /\ i \in 1..Len(requests)
    /\ requests[i].pc = "match"
    /\ requests' = [requests EXCEPT ![i] = Matched(@, caches)]
    /\ UNCHANGED <<worker, caches, failedInstalls, sweptCaches>>
    /\ UNCHANGED besidesWorker

\* a listener that looks at the type of the response only
QualifiesAnyStatus(response) ==
    ~(response.type # "basic" /\ response.type # "cors")

\* the test of the fetch listener on the network's response, negated: TRUE
\* when the response is cloned and put in the cache
Qualifies(response) ==
    ~(response.status # 200 \/ (response.type # "basic" /\ response.type # "cors"))

\* the network settles a request: the browser's own, or the listener's
\* fetch(event.request). A rejection goes to the page as it is; a response
\* is returned to the page, and one that qualifies is first cloned and the
\* clone handed to caches.open(CACHE_NAME).then(cache => cache.put(...)),
\* which nothing waits for
\* a listener that fetches once more when its fetch is rejected
SettledRetry(r, outcome) ==
    IF outcome = Null
    THEN IF r.pc = "fetch" /\ r.net < 2
         THEN [r EXCEPT !.rejected = TRUE, !.net = @ + 1]
         ELSE [r EXCEPT !.rejected = TRUE,
                        !.answer = NetworkError, !.from = "network", !.pc = "done"]
    ELSE IF r.pc = "fetch" /\ Qualifies(outcome[1])
    THEN [r EXCEPT !.network = outcome,
                   !.answer = Answered(outcome[1]), !.from = "network",
                   !.pending = outcome, !.pc = "put"]
    ELSE [r EXCEPT !.network = outcome,
                   !.answer = Answered(outcome[1]), !.from = "network", !.pc = "done"]

\* the request after the network's answer and the callback of fetch()
Settled(r, outcome) ==
    IF outcome = Null
    THEN [r EXCEPT !.rejected = TRUE,
                   !.answer = NetworkError, !.from = "network", !.pc = "done"]
    ELSE IF r.pc = "fetch" /\ Qualifies(outcome[1])
    THEN [r EXCEPT !.network = outcome,
                   !.answer = Answered(outcome[1]), !.from = "network",
                   !.pending = outcome, !.pc = "put"]
    ELSE [r EXCEPT !.network = outcome,
                   !.answer = Answered(outcome[1]), !.from = "network", !.pc = "done"]

NetworkSettles(i, outcome) ==
    /\ i \in 1..Len(requests)
    /\ requests[i].pc \in {"browser", "fetch"}
    /\ requests' = [requests EXCEPT ![i] = Settled(@, outcome)]
    /\ UNCHANGED <<worker, caches, failedInstalls, sweptCaches>>
    /\ UNCHANGED besidesWorker

\* the cache write of a request completes: cache.put(event.request, clone)
PutCompletes(i) ==
    /\ i \in 1..Len(requests)
    /\ requests[i].pc = "put"
    /\ caches' = CachePut(CachesOpen(caches, CACHE_NAME), CACHE_NAME,
                          requests[i].url, requests[i].pending[1])
    /\ requests' = [requests EXCEPT ![i] =
                       [@ EXCEPT !.writes = @ + 1, !.pending = Null, !.pc = "done"]]
    /\ UNCHANGED <<worker, failedInstalls, sweptCaches>>
    /\ UNCHANGED besidesWorker

\* the page at its first load, on date d of UTC+10 at reading c of that
\* day, in a browser of zone z
PageStartAt(z, d, c) ==
    /\ origin = d
    /\ clock = c
    /\ zone = z
    /\ persisted = Null
    /\ events = EmptyStore
    /\ sessionNotifiedIds = {}
    /\ currentEditingEvent = Null
    /\ displayedDate = Today(c)
    /\ rendered = generateCalendar(EmptyStore, Today(c), c)
    /\ confirmOpen = FALSE
    /\ yesListeners = <<>>
    /\ rolloverDue = scheduleMidnightUpdate(c)
    /\ notifyCount = [seen |-> {}, again |-> {}]
    /\ lastOp = Op("other", {})
    /\ menuOpen = FALSE
    /\ pendingOpens = <<>>
    /\ viewer = NoViewer
    /\ panelSliderIntervals = <<>>
    /\ runningIntervals = <<>>
    /\ nextIntervalId = 1
    /\ chat = FALSE
    /\ chatbotOpen = FALSE
    /\ chatbotMessages = <<>>
    /\ submissions = <<>>

PageStart(z) == PageStartAt(z, StartDate, StartClock)

\* the worker's context in a browser that holds the caches cs of earlier
\* deployments
WorkerStart(cs) ==
    /\ worker = NoWorker
    /\ caches = cs
    /\ requests = <<>>
    /\ failedInstalls = {}
    /\ sweptCaches = {}

Init == PageStart(FixedZone) /\ WorkerStart(<<>>)


\* Editing the store: the dialogs, the clock that gives the ids, reloads.
\* The timer callbacks are left to the specifications below: checkReminders
\* writes only sessionNotifiedIds, and the rollover callback and the month
\* buttons only re-render (MidnightUpdate, PrevMonth and NextMonth are kept
\* here as actions for the specifications of the rollover and of paging).
Next ==
    \/ \E d \in InputDays : OpenAdd(d)
    \/ \E row \in RenderedRows : OpenEdit(row)
    \/ Cancel
    \/ \E f \in FormInputs : Save(f[1], f[2], f[3], MaxEvents)
    \/ \E row \in RenderedRows : ShowDeleteConfirmation(row, MaxPending)
    \/ ConfirmYes
    \/ ConfirmNo
    \/ Tick(EditInstants)
    \/ Reload

Spec == Init /\ [][Next]_vars

\* the reminder scan among the same operations, over events with a time
NextRemind ==
    \/ \E d \in InputDays : OpenAdd(d)
    \/ \E row \in RenderedRows : OpenEdit(row)
    \/ Cancel
    \/ \E f \in RemindForms : Save(f[1], f[2], f[3], MaxRemindEvents)
    \/ \E row \in RenderedRows : ShowDeleteConfirmation(row, MaxPending)
    \/ ConfirmYes
    \/ ConfirmNo
    \/ CheckReminders
    \/ Tick(RemindInstants)
    \/ Reload

SpecRemind == Init /\ [][NextRemind]_vars

\* the timers, the reminder scan and the midnight rollover, over some days,
\* on a page loaded in a browser whose zone keeps its clocks or changes them
InitZones == \E z \in {FixedZone, DstZone, DstZoneEast} : PageStart(z) /\ WorkerStart(<<>>)

NextRoll ==
    \/ \E d \in InputDays : OpenAdd(d)
    \/ \E f \in RemindForms : Save(f[1], f[2], f[3], MaxRemindEvents)
    \/ MidnightUpdate
    \/ CheckReminders
    \/ Tick(RollInstants)
    \/ Reload

SpecRoll == InitZones /\ [][NextRoll]_vars

\* the delete confirmation opened and answered again and again, over
\* events some of which have been notified
NextConfirm ==
    \/ \E d \in InputDays : OpenAdd(d)
    \/ \E f \in RemindForms : Save(f[1], f[2], f[3], MaxEvents)
    \/ \E row \in RenderedRows : ShowDeleteConfirmation(row, MaxStale)
    \/ ConfirmYes
    \/ ConfirmNo
    \/ CheckReminders
    \/ Tick(RemindInstants)

SpecConfirm == Init /\ [][NextConfirm]_vars

\* events with a reminder created and edited, the time kept or cleared
NextEdit ==
    \/ \E d \in InputDays : OpenAdd(d)
    \/ \E row \in RenderedRows : OpenEdit(row)
    \/ Cancel
    \/ \E f \in EditForms : Save(f[1], f[2], f[3], MaxEvents)
    \/ Tick(EditInstants)

SpecEdit == Init /\ [][NextEdit]_vars

\* the month buttons, on pages loaded on different dates, among saves and
\* reloads
InitNav == \E d \in LoadDates : PageStartAt(FixedZone, d, StartClock) /\ WorkerStart(<<>>)

NextNav ==
    \/ PrevMonth
    \/ NextMonth
    \/ \E d \in InputDays : OpenAdd(d)
    \/ \E f \in NavForms : Save(f[1], f[2], f[3], MaxEvents)
    \/ Tick(EditInstants)
    \/ Reload

SpecNav == InitNav /\ [][NextNav]_vars

\* the service worker: registrations, its lifecycle events, and the page's
\* requests with the network's answers
InitWorker == \E cs \in PreviousCaches : PageStart(FixedZone) /\ WorkerStart(cs)

NextWorker ==
    \/ Register
    \/ \E outcomes \in [1..Len(urlsToCache) -> InstallOutcomes] : Install(outcomes)
    \/ Activate
    \/ \E r \in PageRequests : PageRequest(r[1], r[2])
    \/ \E i \in 1..MaxRequests : MatchResolves(i)
    \/ \E i \in 1..MaxRequests, outcome \in NetworkOutcomes : NetworkSettles(i, outcome)
    \/ \E i \in 1..MaxRequests : PutCompletes(i)

SpecWorker == InitWorker /\ [][NextWorker]_vars

\* the same while the next deployment is installed beside the active worker
NextDeploy ==
    \/ NextWorker
    \/ \E outcomes \in [1..Len(nextUrlsToCache) -> InstallOutcomes] : InstallNext(outcomes)

SpecDeploy == InitWorker /\ [][NextDeploy]_vars

\* the reminder scan on its schedule: checkReminders runs when the page is
\* loaded and then every 60 s, counted from the load.  The page is loaded
\* late in the evening, half a minute off the full minute or on it, and
\* the events are entered before 23:30, for the next day, with a time just
\* after midnight and a lead of 30 minutes.
T0000 == <<"0", "0", ":", "0", "0">>
T0010 == <<"0", "0", ":", "1", "0">>

ScanForms ==
    {<<<<"a">>, T0000, R30>>,
     <<<<"a">>, T0010, R30>>,
     <<<<"b">>, <<>>, none>>}

ScanLoads == {At(23, 27) + 30 * 1000, At(23, 28)}

EntryClose == At(23, 30)

ScanHorizon == MsPerDay + At(0, 12)

ScanPeriod == 60000

\* the interval timer fires one period after the scan before it
ScanTick ==
    /\ clock + ScanPeriod <= ScanHorizon
    /\ clock' = clock + ScanPeriod
    /\ LET emitted == checkReminders(events, clock', sessionNotifiedIds)
       IN  /\ sessionNotifiedIds' = sessionNotifiedIds \cup emitted
           /\ notifyCount' = [seen |-> notifyCount.seen \cup emitted,
                              again |-> notifyCount.again \cup (notifyCount.seen \cap emitted)]
           /\ lastOp' = [op |-> "scan", arg |-> emitted,
                         before |-> IF lastOp.op = "scan" THEN lastOp.arg \cup lastOp.before
                                    ELSE {}]
    /\ UNCHANGED <<events, persisted, currentEditingEvent, displayedDate, rendered,
                   confirmOpen, yesListeners, rolloverDue>>
    /\ UNCHANGED besidesPage

InitScan == \E c \in ScanLoads : PageStartAt(FixedZone, StartDate, c) /\ WorkerStart(<<>>)

NextScan ==
    \/ \E d \in InputDays : clock < EntryClose /\ OpenAdd(d)
    \/ \E f \in ScanForms : clock < EntryClose /\ Save(f[1], f[2], f[3], MaxRemindEvents)
    \/ ScanTick

SpecScan == InitScan /\ [][NextScan]_vars

\* the menu panel and the resource viewer with the gallery's sliders
NextViewer ==
    \/ OpenPanelSystem
    \/ \E t \in TemplateIds : ResourceItemClick(t, MaxQueued)
    \/ OpenResourceViewer(MaxGalleryOpens)
    \/ CloseResourceViewer
    \/ \E id \in DOMAIN runningIntervals : IntervalFires(id)

SpecViewer == Init /\ [][NextViewer]_vars

\* the chat window and the runs of its submit handler
NextChat ==
    \/ \E forceOpen \in BOOLEAN, created \in BOOLEAN :
          ToggleChatbot(forceOpen, created, MaxInitErrors)
    \/ \E input \in ChatInputs : Submit(input, MaxSubmissions)
    \/ \E n \in 1..MaxSubmissions : SendResolves(n)
    \/ \E n \in 1..MaxSubmissions, t \in ChunkTexts : Chunk(n, t, MaxChunks)
    \/ \E n \in 1..MaxSubmissions : StreamEnds(n)
    \/ \E n \in 1..MaxSubmissions, error \in ChatErrors : Throws(n, error)

SpecChat == Init /\ [][NextChat]_vars


\* ------------------------------------------------------------ properties
AllEvents(store) ==
    UNION {{<<k, i>> : i \in 1..Len(store[k])} : k \in DOMAIN store}

\* minutes after midnight of an "HH:MM" string, digit by digit
MinutesOf(t) ==
    (DigitVal(t[1]) * 10 + DigitVal(t[2])) * 60 + DigitVal(t[4]) * 10 + DigitVal(t[5])

\* C1: no two events of the store, under one date key or under two, have
\* the same id.
C1_IdsUnique ==
    \A p \in AllEvents(events), q \in AllEvents(events) :
        p # q => events[p[1]][p[2]].id # events[q[1]][q[2]].id

\* C2: no date key of the store maps to an empty list; deleting the only
\* event of a date removes the key.
C2_NoEmptyList ==
    /\ \A k \in DOMAIN events : events[k] # <<>>
    /\ persisted # Null => \A pr \in persisted[1] : pr[2] # <<>>

\* the store was emptied by a delete: the empty mapping has been persisted
C2_Witness == DOMAIN events = {} /\ persisted = <<{}>>

\* C3: every stored event has reminder 'none' or a non-empty time.
C3_ReminderHasTime ==
    \A p \in AllEvents(events) :
        events[p[1]][p[2]].reminder = none \/ events[p[1]][p[2]].time # <<>>

\* an event with a reminder is in the store while a dialog for it is open
C3_Witness ==
    /\ currentEditingEvent # Null
    /\ \E p \in AllEvents(events) :
          /\ events[p[1]][p[2]].reminder # none
          /\ events[p[1]][p[2]].id = currentEditingEvent[1].id
          /\ p[1] = currentEditingEvent[1].date

\* C4: a save click on invalid fields (text empty after trimming, or a
\* reminder with no time) changes neither the store, nor the persisted
\* item, nor the set of notified ids.
C4_RejectedSaveChangesNothing ==
    [][lastOp'.op = "saveInvalid" =>
          UNCHANGED <<events, persisted, sessionNotifiedIds>>]_vars

\* a save click on invalid fields has just run, over a store that is not empty
C4_Witness ==
    lastOp.op = "saveInvalid" /\ DOMAIN events # {} /\ currentEditingEvent # Null

\* C5: whenever an operation has written the persisted item, the item is
\* the serialization of the store as the operation leaves it.
C5_PersistedIsStore ==
    [][persisted' # persisted => persisted' = saveEvents(events')]_vars


\* the ids a scan at reading c is to notify, from the words of the claim:
\* stored under the key of c's date, reminder set and not 'none', time set,
\* not yet notified, c not later than the scheduled time and not earlier
\* than the scheduled time less the lead minutes
DueIds(store, c, notified) ==
    LET k == Today(c)
        nowOfDay == c % MsPerDay
        l == IF k \in DOMAIN store THEN store[k] ELSE <<>>
        lead(e) == DigitVal(e.reminder[1]) * 10 + DigitVal(e.reminder[2])
    IN  {l[i].id : i \in {j \in 1..Len(l) :
            /\ l[j].reminder # <<>> /\ l[j].reminder # none
            /\ l[j].time # <<>>
            /\ l[j].id \notin notified
            /\ nowOfDay <= MinutesOf(l[j].time) * MsPerMinute
            /\ nowOfDay >= (MinutesOf(l[j].time) - lead(l[j])) * MsPerMinute}}

\* C6: a scan notifies exactly the events that are due by the claim's
\* conditions; an event at 14:00 with a 30 minute reminder under today's
\* key is notified by a scan at 13:31 and not by one at 13:29, and no
\* event under another key is notified.
C6_ScanNotifiesExactlyDue ==
    [][lastOp'.op = "scan" =>
          /\ lastOp'.arg = DueIds(events, clock, sessionNotifiedIds)
          /\ \A p \in AllEvents(events) :
                LET e == events[p[1]][p[2]]
                IN  /\ (p[1] # Today(clock) /\ \A q \in AllEvents(events) :
                            q[1] = Today(clock) => events[q[1]][q[2]].id # e.id)
                        => e.id \notin lastOp'.arg
                    /\ (p[1] = Today(clock) /\ e.time = T1400 /\ e.reminder = R30
                            /\ e.id \notin sessionNotifiedIds)
                        => /\ clock = At(13, 31) => e.id \in lastOp'.arg
                           /\ clock = At(13, 29) => e.id \notin lastOp'.arg]_vars

\* a scan at 13:31 has just notified an event
C6_Witness == lastOp.op = "scan" /\ lastOp.arg # {} /\ clock = At(13, 31)

\* C7: a scan that follows a scan with nothing in between notifies no
\* event the earlier one notified.
C7_SecondScanSilent ==
    lastOp.op = "scan" => lastOp.arg \cap lastOp.before = {}

\* a scan has run directly after a scan that notified an event
C7_Witness == lastOp.op = "scan" /\ lastOp.before # {}

\* C8: within a session no id is notified a second time.
C8_NeverNotifiedTwice == notifyCount.again = {}

\* s occurs in t as a run of consecutive characters
Contains(t, s) ==
    \E i \in 0..(Len(t) - Len(s)) : SubSeq(t, i + 1, i + Len(s)) = s

\* C9: a successful create on a date of the displayed month that had no
\* events leaves exactly one row under that date, which shows the text, and
\* leaves the rows of every other date as they were.
C9_CreateShowsText ==
    [][(/\ currentEditingEvent # Null
        /\ TotalEvents(events') = TotalEvents(events) + 1
        /\ currentEditingEvent[1].date \notin DOMAIN events
        /\ InMonth(currentEditingEvent[1].date, displayedDate[1], displayedDate[2]))
       => LET date == currentEditingEvent[1].date
          IN  /\ Len(rendered'.cells[date[3]]) = 1
              /\ Contains(rendered'.cells[date[3]][1].text, events'[date][1].text)
              /\ \A d \in DOMAIN rendered.cells :
                    d # date[3] => rendered'.cells[d] = rendered.cells[d]]_vars

\* C10: under every date of the rendered month the rows are in ascending
\* order of time, the untimed ones first.
C10_RowsSortedByTime ==
    \A d \in DOMAIN rendered.cells :
        \A i \in 1..Len(rendered.cells[d]), j \in 1..Len(rendered.cells[d]) :
            i < j =>
                \/ rendered.cells[d][i].time = <<>>
                \/ /\ rendered.cells[d][j].time # <<>>
                   /\ MinutesOf(rendered.cells[d][i].time) <= MinutesOf(rendered.cells[d][j].time)

\* a date shows two rows with different times, the one created later first
C10_Witness ==
    \E d \in DOMAIN rendered.cells :
        /\ Len(rendered.cells[d]) >= 2
        /\ rendered.cells[d][1].time # rendered.cells[d][2].time
        /\ rendered.cells[d][1].id > rendered.cells[d][2].id

\* the event entries generateCalendar lists under the dates of date's month,
\* each with its id, text, time and reminder, and the rows it shows
MonthEntries(store, date) ==
    [d \in 1..daysInMonth(date[1], date[2]) |->
        SortEvents(ListOf(store, DateKey(date[1], date[2], d)))]

\* C11: serializing the store, reloading it as at startup and rendering the
\* month on display gives, under every date, the same sequence of entries
\* (id, text, time, reminder) and the same rows as the store in memory
\* gives; so does reloading the item that localStorage holds.
C11_RoundTrip ==
    LET reloaded == SortedStore(ParseStore(saveEvents(events)), displayedDate)
        stored == SortedStore(ParseStore(persisted), displayedDate)
    IN  /\ MonthEntries(reloaded, displayedDate) = MonthEntries(events, displayedDate)
        /\ generateCalendar(reloaded, displayedDate, clock).cells = rendered.cells
        /\ MonthEntries(stored, displayedDate) = MonthEntries(events, displayedDate)
        /\ generateCalendar(stored, displayedDate, clock).cells = rendered.cells

\* the item in localStorage lists two events of a date, one of them with a
\* reminder, in another order than the store in memory does
C11_Witness ==
    /\ persisted # Null
    /\ \E k \in DOMAIN events :
          /\ k \in DOMAIN ParseStore(persisted)
          /\ ParseStore(persisted)[k] # events[k]
          /\ \E i \in 1..Len(events[k]) : events[k][i].reminder # none

\* the entries of the cache called name; none when there is no such cache
CacheEntries(cs, name) ==
    IF HasCache(cs, name)
    THEN cs[CHOOSE i \in 1..Len(cs) : cs[i].name = name].entries
    ELSE [u \in {} |-> 0]

\* C12: an install in which the fetch of a manifest entry fails is rejected
\* and leaves no manifest entry in the cache of the current version (an
\* install that is accepted leaves every one); an instance whose install
\* was rejected is never installed or active; and a request made while
\* there is no active worker gets no fetch event and is answered by the
\* network.
C12_InstallAllOrNothing ==
    /\ [][worker.state = "installing" /\ worker'.state # "installing" =>
            IF worker'.state = "installed"
            THEN \A i \in 1..Len(urlsToCache) :
                    /\ urlsToCache[i] \in DOMAIN CacheEntries(caches', CACHE_NAME)
                    /\ CacheEntries(caches', CACHE_NAME)[urlsToCache[i]].status \in 200..299
            ELSE /\ worker'.state = "redundant"
                 /\ \A i \in 1..Len(urlsToCache) :
                        urlsToCache[i] \notin DOMAIN CacheEntries(caches', CACHE_NAME)]_vars
    /\ [](worker.state \in {"installed", "activated"} => worker.gen \notin failedInstalls)
    /\ [][worker.state = "redundant" /\ Len(requests') > Len(requests) =>
            requests'[Len(requests')].pc = "browser"]_vars
    /\ [](\A i \in 1..Len(requests) :
            requests[i].pc = "done" /\ ~requests[i].event =>
                requests[i].from = "network" /\ requests[i].lookups = 0)

\* after a rejected install the cache of the current version is there and
\* a GET of a manifest URL has been answered by the network
C12_Witness ==
    /\ worker.state = "redundant"
    /\ worker.gen \in failedInstalls
    /\ HasCache(caches, CACHE_NAME)
    /\ \E i \in 1..Len(requests) :
          /\ requests[i].url = "index.html" /\ requests[i].method = "GET"
          /\ requests[i].pc = "done" /\ requests[i].answer.kind = "response"

\* C13: for a request that is not a GET the fetch listener supplies no
\* response, looks nothing up, writes nothing and fetches nothing; the
\* caches change only by install, by activation and by the cache write of
\* a GET.
C13_NonGetUntouched ==
    /\ [](\A i \in 1..Len(requests) :
            requests[i].method # "GET" =>
                /\ ~requests[i].handled
                /\ requests[i].lookups = 0 /\ requests[i].net = 0 /\ requests[i].writes = 0
                /\ requests[i].pending = Null
                /\ requests[i].from # "cache")
    /\ [][caches' # caches =>
            \/ worker' # worker
            \/ \E i \in 1..Len(requests) :
                  /\ requests[i].method = "GET"
                  /\ requests[i].pc = "put" /\ requests'[i].pc = "done"]_vars

\* a POST of a URL that the cache holds went through an active worker
C13_Witness ==
    \E i \in 1..Len(requests) :
        /\ requests[i].method = "POST" /\ requests[i].event
        /\ requests[i].pc = "done"
        /\ CachesMatch(caches, requests[i].url) # Null

\* C14: when the network answers the fetch of a cache miss with a response,
\* the page gets that response, and a copy of it is handed to the cache
\* write exactly when its status is 200 and its type basic or cors; the
\* write puts that copy under the request's URL in the cache of the
\* current version and changes nothing else.
C14_CachesOnlyQualifying ==
    /\ [][\A i \in 1..Len(requests) :
            requests[i].pc = "fetch" /\ requests'[i].network # Null =>
                LET r == requests'[i].network[1]
                IN  /\ requests'[i].answer = Answered(r)
                    /\ caches' = caches
                    /\ IF r.status = 200 /\ r.type \in {"basic", "cors"}
                       THEN requests'[i].pc = "put" /\ requests'[i].pending = <<r>>
                       ELSE requests'[i].pc = "done" /\ requests'[i].pending = Null]_vars
    /\ [][\A i \in 1..Len(requests) :
            requests[i].pc = "put" /\ requests'[i].pc = "done" =>
                /\ requests'[i].answer = requests[i].answer
                /\ CacheEntries(caches', CACHE_NAME) =
                      [u \in DOMAIN CacheEntries(caches, CACHE_NAME) \cup {requests[i].url} |->
                          IF u = requests[i].url THEN requests[i].network[1]
                          ELSE CacheEntries(caches, CACHE_NAME)[u]]
                /\ \A j \in 1..Len(caches) :
                      caches[j].name # CACHE_NAME => caches'[j] = caches[j]]_vars
    /\ [](\A i \in 1..Len(requests) :
            requests[i].writes > 0 =>
                /\ requests[i].network # Null
                /\ requests[i].network[1].status = 200
                /\ requests[i].network[1].type \in {"basic", "cors"})

\* one miss was answered with a 200 cors response, now in the cache, and
\* another with a response that is not cached
C14_Witness ==
    /\ \E i \in 1..Len(requests) :
          /\ requests[i].writes = 1
          /\ requests[i].network[1].type = "cors"
          /\ CacheEntries(caches, CACHE_NAME)[requests[i].url] = requests[i].network[1]
    /\ \E i \in 1..Len(requests) :
          /\ requests[i].handled /\ requests[i].pc = "done"
          /\ requests[i].network # Null /\ requests[i].network[1].status # 200
          /\ requests[i].writes = 0

\* a GET whose lookup finds an entry is answered with that entry, with no
\* network request and no cache write
CacheHitServed ==
    /\ [][\A i \in 1..Len(requests) :
            (/\ requests[i].pc = "match" /\ requests'[i].pc # "match"
             /\ CachesMatch(caches, requests[i].url) # Null) =>
                /\ requests'[i].answer = Answered(CachesMatch(caches, requests[i].url)[1])
                /\ requests'[i].from = "cache"
                /\ requests'[i].pc = "done"
                /\ requests'[i].net = 0 /\ requests'[i].writes = 0
                /\ requests'[i].pending = Null
                /\ caches' = caches]_vars
    /\ [](\A i \in 1..Len(requests) :
            requests[i].from = "cache" =>
                /\ requests[i].pc = "done"
                /\ requests[i].net = 0 /\ requests[i].writes = 0)

\* C15 as stated: a hit is served from the cache alone, and once a URL has
\* an entry in the cache of the current version the entry stays as it is,
\* so that every later GET is served the same response.
C15_CachedStaysSame ==
    /\ CacheHitServed
    /\ [][\A u \in DOMAIN CacheEntries(caches, CACHE_NAME) :
            /\ u \in DOMAIN CacheEntries(caches', CACHE_NAME)
            /\ CacheEntries(caches', CACHE_NAME)[u] = CacheEntries(caches, CACHE_NAME)[u]]_vars

\* C15 (amended): a hit is served from the cache alone; an entry of the
\* cache of the current version is never removed, and it changes only
\* when the cache write of a GET that missed on that URL completes, to the
\* response that GET got from the network.
C15_CacheFirst ==
    /\ CacheHitServed
    /\ [][\A u \in DOMAIN CacheEntries(caches, CACHE_NAME) :
            /\ u \in DOMAIN CacheEntries(caches', CACHE_NAME)
            /\ CacheEntries(caches', CACHE_NAME)[u] # CacheEntries(caches, CACHE_NAME)[u] =>
                  \E i \in 1..Len(requests) :
                      /\ requests[i].url = u /\ requests[i].lookups = 1
                      /\ requests[i].pc = "put" /\ requests'[i].pc = "done"
                      /\ CacheEntries(caches', CACHE_NAME)[u] = requests[i].network[1]]_vars

\* a GET of a URL outside the manifest was served from the cache, where
\* the cache write of an earlier miss had put it
C15_Witness ==
    \E i \in 1..Len(requests), j \in 1..Len(requests) :
        /\ requests[i].url = "assets/images/new.jpg" /\ requests[i].writes = 1
        /\ requests[j].url = "assets/images/new.jpg" /\ requests[j].from = "cache"
        /\ requests[j].answer = Answered(requests[i].network[1])

\* C16: when activation completes, no cache is left whose name is not the
\* current version's, every cache that was there under another name has
\* been deleted, and the cache of the current version is there with the
\* entries it had.
C16_ActivateSweeps ==
    [][worker.state = "installed" /\ worker'.state = "activated" =>
          /\ \A i \in 1..Len(caches') : caches'[i].name = CACHE_NAME
          /\ \A i \in 1..Len(caches) :
                caches[i].name # CACHE_NAME => caches[i].name \in sweptCaches'
          /\ CACHE_NAME \notin sweptCaches'
          /\ HasCache(caches', CACHE_NAME)
          /\ CacheEntries(caches', CACHE_NAME) = CacheEntries(caches, CACHE_NAME)]_vars

\* activation has deleted two older caches and kept the installed manifest
C16_Witness ==
    /\ worker.state = "activated"
    /\ Cardinality(sweptCaches) = 2
    /\ Len(caches) = 1
    /\ \A i \in 1..Len(urlsToCache) : urlsToCache[i] \in DOMAIN CacheEntries(caches, CACHE_NAME)

\* C17: when the network rejects the fetch of a cache miss, the page gets
\* the network error, the listener has made one network request and no
\* more, it writes nothing to the cache, and the request is over.
C17_NetworkFailurePropagates ==
    /\ [](\A i \in 1..Len(requests) :
            requests[i].handled /\ requests[i].rejected =>
                /\ requests[i].answer = NetworkError
                /\ requests[i].net = 1
                /\ requests[i].writes = 0 /\ requests[i].pending = Null
                /\ requests[i].pc = "done")
    /\ [][\A i \in 1..Len(requests) :
            requests[i].pc = "fetch" /\ requests'[i].rejected => caches' = caches]_vars

\* the fetch of a cache miss was rejected
C17_Witness ==
    \E i \in 1..Len(requests) :
        /\ requests[i].handled /\ requests[i].rejected
        /\ requests[i].lookups = 1
        /\ requests[i].url \notin DOMAIN CacheEntries(caches, CACHE_NAME)

\* the date of UTC+10 at reading c
TargetDate(c) == AddDays(origin, c \div MsPerDay)

\* C18: the rollover callback first runs after the midnight of UTC+10 that
\* follows the page load; every run leaves the timer set for 24 hours
\* later with no call of scheduleMidnightUpdate; and after every run the
\* grid shows the month of the date of UTC+10 with that date's cell, and no
\* other, marked as the current day, which is the date whose key the
\* reminder scan reads.
C18_MidnightRollover ==
    [][rolloverDue' # rolloverDue /\ rolloverDue'.kind = "interval" =>
          /\ rolloverDue.kind = "timeout" => clock \div MsPerDay > rolloverDue.day
          /\ rolloverDue'.at =
                (IF rolloverDue.kind = "timeout" THEN clock ELSE rolloverDue.at) + MsPerDay
          /\ rendered'.year = TargetDate(clock)[1]
          /\ rendered'.month = TargetDate(clock)[2]
          /\ rendered'.current = {TargetDate(clock)[3]}
          /\ todayStr(clock) =
                DateKey(TargetDate(clock)[1], TargetDate(clock)[2], TargetDate(clock)[3])]_vars

\* the positions of list l that hold an event with the id
WithId(l, id) == {i \in 1..Len(l) : l[i].id = id}

\* the same events the same number of times, in whatever order
SameEvents(a, b) ==
    /\ Len(a) = Len(b)
    /\ \A i \in 1..Len(a) :
          Cardinality({j \in 1..Len(a) : a[j] = a[i]})
            = Cardinality({j \in 1..Len(b) : b[j] = a[i]})

\* C19: a save that goes through, for the dialog's (date, id) and the
\* fields text, time, reminder: when date's list holds the id, the list
\* keeps its length, otherwise it grows by one; afterwards exactly one
\* event of the list has the id and it carries the saved text, time and
\* reminder, the other events of the list are the ones it held, the lists
\* of all other dates are as they were, the persisted item holds the
\* store's dates and events, and the dialog is closed.
C19_SaveUpserts ==
    [][lastOp'.op = "save" =>
          LET date == currentEditingEvent[1].date
              id == currentEditingEvent[1].id
              before == ListOf(events, date)
              after == ListOf(events', date)
          IN  /\ WithId(before, id) # {} => Len(after) = Len(before)
              /\ WithId(before, id) = {} => Len(after) = Len(before) + 1
              /\ Cardinality(WithId(after, id)) = 1
              /\ \A i \in WithId(after, id) :
                    lastOp'.arg = {<<after[i].text, after[i].time, after[i].reminder>>}
              /\ SameEvents(SelectSeq(before, LAMBDA e : e.id # id),
                            SelectSeq(after, LAMBDA e : e.id # id))
              /\ DOMAIN events' = DOMAIN events \cup {date}
              /\ \A k \in DOMAIN events \ {date} : events'[k] = events[k]
              /\ persisted' # Null
              /\ DOMAIN ParseStore(persisted') = DOMAIN events'
              /\ \A k \in DOMAIN events' :
                    SameEvents(ParseStore(persisted')[k], events'[k])
              /\ currentEditingEvent' = Null]_vars

\* a save has just gone through and closed the dialog, with a date that
\* holds two events of different times
C19_Witness ==
    /\ lastOp.op = "save"
    /\ currentEditingEvent = Null
    /\ \E k \in DOMAIN events :
          Len(events[k]) = 2 /\ events[k][1].time # events[k][2].time

\* C20: a Yes click, for the (date, id) of the confirmation opened last
\* whose event is in the store: date's list is left without that event
\* and with its other events in place (the key is gone when none is left),
\* the lists of all other dates are as they were, the id is no longer in
\* sessionNotifiedIds, and the persisted item is the store that results.
C20_ConfirmedDeleteRemovesOne ==
    [][/\ lastOp'.op = "confirmYes"
       /\ yesListeners # <<>>
       /\ yesListeners[Len(yesListeners)].date \in DOMAIN events
       /\ WithId(events[yesListeners[Len(yesListeners)].date],
                 yesListeners[Len(yesListeners)].id) # {}
       =>
          LET date == yesListeners[Len(yesListeners)].date
              id == yesListeners[Len(yesListeners)].id
              rest == SelectSeq(events[date], LAMBDA e : e.id # id)
          IN  /\ ListOf(events', date) = rest
              /\ date \in DOMAIN events' <=> rest # <<>>
              /\ \A k \in DOMAIN events \ {date} :
                    k \in DOMAIN events' /\ events'[k] = events[k]
              /\ id \notin sessionNotifiedIds'
              /\ persisted' = saveEvents(events')]_vars

\* C21: a render that runs on its own (a month button, the rollover
\* callback) leaves the store as it was, the order of every date's list
\* included, and writes nothing to the persisted item.
C21_RenderIsPure ==
    [][lastOp'.op \in {"navigate", "rollover"} =>
          events' = events /\ persisted' = persisted]_vars

\* C22: a click on next-month shows the month after the one on display
\* (January of the next year after December), a click on prev-month the
\* month before it, whatever the day of the displayed date.
C22_NavigateByOneMonth ==
    [][lastOp'.op = "navigate" =>
          \A delta \in lastOp'.arg :
              /\ MonthIndex(displayedDate') = MonthIndex(displayedDate) + delta
              /\ rendered'.year * 12 + rendered'.month = MonthIndex(displayedDate) + delta]_vars

\* the cells of the rows of a grid, one row after the other
RECURSIVE Flatten(_)
Flatten(rows) == IF rows = <<>> THEN <<>> ELSE Head(rows) \o Flatten(Tail(rows))

\* the weekday of a date, 0 for a Sunday, counted in days from Saturday
\* 1 January 2000
RECURSIVE DaysBeforeYear(_)
DaysBeforeYear(y) ==
    IF y <= 2000 THEN 0
    ELSE (IF IsLeap(y - 1) THEN 366 ELSE 365) + DaysBeforeYear(y - 1)

RECURSIVE DaysBeforeMonth(_, _)
DaysBeforeMonth(y, m) ==
    IF m = 0 THEN 0 ELSE daysInMonth(y, m - 1) + DaysBeforeMonth(y, m - 1)

Weekday(y, m, d) == (6 + DaysBeforeYear(y) + DaysBeforeMonth(y, m) + d - 1) % 7

\* an operation that ends with generateCalendar has just run
Rendering ==
    \/ lastOp'.op \in {"save", "navigate", "rollover", "load"}
    \/ lastOp'.op = "confirmYes" /\ ~confirmOpen'

\* C23: the grid on display has rows of seven cells that hold, one row
\* after the other, the days 1 to the month's length in order, day 1 in
\* the column of the weekday of the first of the month (0 = Sunday), and
\* empty cells before and after; at most one cell is marked current-day,
\* and a render marks exactly the day of the displayed month, if any,
\* that is the date of UTC+10 at the time of the render.
C23_GridOfMonth ==
    /\ [](LET dim == daysInMonth(rendered.year, rendered.month)
              first == Weekday(rendered.year, rendered.month, 1)
              flat == Flatten(rendered.rows)
          IN  /\ \A i \in 1..Len(rendered.rows) : Len(rendered.rows[i]) = 7
              /\ Len(flat) >= first + dim
              /\ \A k \in 1..Len(flat) :
                    flat[k] = (IF k > first /\ k <= first + dim THEN k - first ELSE 0)
              /\ DOMAIN rendered.cells = 1..dim
              /\ Cardinality(rendered.current) <= 1)
    /\ [][Rendering =>
             rendered'.current =
                {d \in 1..daysInMonth(rendered'.year, rendered'.month) :
                    DateKey(rendered'.year, rendered'.month, d)
                      = DateKey(TargetDate(clock')[1], TargetDate(clock')[2],
                                TargetDate(clock')[3])}]_vars

\* a save click on fields with a reminder and no time (among EditForms a
\* refused click has these fields, the text being filled in)
ClickNoTime ==
    \/ lastOp'.op = "saveInvalid"
    \/ lastOp'.op = "save" /\ \E f \in lastOp'.arg : f[2] = <<>> /\ f[3] # none

\* the open dialog is for an event that is in the store
EditingStored ==
    /\ currentEditingEvent # Null
    /\ WithId(ListOf(events, currentEditingEvent[1].date), currentEditingEvent[1].id) # {}

\* C24, as claimed: a save click in the dialog of a stored event, with
\* the time cleared and the reminder left other than 'none', is accepted:
\* the event is stored with no time and with the reminder.
C24_EditWithoutTimeStored ==
    [][ClickNoTime /\ EditingStored =>
          LET l == ListOf(events', currentEditingEvent[1].date)
          IN  \E i \in WithId(l, currentEditingEvent[1].id) :
                  l[i].time = <<>> /\ l[i].reminder # none]_vars

\* C24, amended: a save click with a reminder and no time is refused for a
\* stored event as for a new one: the store, the persisted item and the
\* open dialog stay as they are, so a stored event keeps its time.
C24_EditWithoutTimeRefused ==
    [][ClickNoTime => UNCHANGED <<events, persisted, currentEditingEvent>>]_vars

\* a save click that cleared the time of a stored event with a reminder
\* has just been refused
C24_Witness ==
    /\ lastOp.op = "saveInvalid"
    /\ currentEditingEvent # Null
    /\ \E i \in WithId(ListOf(events, currentEditingEvent[1].date), currentEditingEvent[1].id) :
          /\ events[currentEditingEvent[1].date][i].time = T1400
          /\ events[currentEditingEvent[1].date][i].reminder = R30

\* two GETs of one URL that both missed in the cache and both got a
\* response that qualifies
BothMissed(i, j) ==
    /\ i # j
    /\ requests[i].url = requests[j].url
    /\ requests[i].handled /\ requests[j].handled
    /\ requests[i].net = 1 /\ requests[j].net = 1
    /\ requests[i].network # Null /\ requests[j].network # Null
    /\ Qualifies(requests[i].network[1]) /\ Qualifies(requests[j].network[1])

\* C25: the page has the network's response of a qualifying miss while
\* the cache write is still to come; each of two overlapping misses of one
\* URL makes its own network request and its own write; a write that
\* completes leaves its response as the entry, so the write that completes
\* last decides the entry, and once both are done the URL has one entry,
\* in the cache of the current version, which is the response of one of
\* the writes made for the URL.
C25_LastWriterWins ==
    /\ [](\A i \in 1..Len(requests) :
            requests[i].pc = "put" =>
                /\ requests[i].answer = Answered(requests[i].pending[1])
                /\ requests[i].writes = 0)
    /\ [][\A i \in 1..Len(requests) :
            requests[i].pc = "put" /\ requests'[i].pc = "done" =>
                /\ requests'[i].writes = 1
                /\ CachesMatch(caches', requests[i].url) = requests[i].pending]_vars
    /\ [](\A i \in 1..Len(requests), j \in 1..Len(requests) :
            BothMissed(i, j) /\ requests[i].pc = "done" /\ requests[j].pc = "done" =>
                /\ requests[i].writes = 1 /\ requests[j].writes = 1
                /\ CacheEntries(caches, CACHE_NAME)[requests[i].url]
                      \in {requests[k].network[1] :
                              k \in {n \in 1..Len(requests) :
                                        /\ requests[n].url = requests[i].url
                                        /\ requests[n].writes = 1}}
                /\ Cardinality({k \in 1..Len(caches) :
                                    requests[i].url \in DOMAIN caches[k].entries}) = 1)

\* two overlapping misses of one URL got different responses, and the
\* write of the request made first completed last
C25_Witness ==
    /\ Len(requests) = 2
    /\ BothMissed(1, 2)
    /\ requests[1].pc = "done" /\ requests[2].pc = "done"
    /\ requests[1].network # requests[2].network
    /\ CacheEntries(caches, CACHE_NAME)[requests[1].url] = requests[1].network[1]

\* C26: a GET is answered from the cache only with the entry that the
\* cache of the worker's own version has for its URL; when that cache has
\* none, whatever another cache holds, the request goes to the network.
C26_ServedFromOwnCache ==
    [][\A i \in 1..Len(requests) :
          requests[i].pc = "match" /\ requests'[i].pc # "match" =>
              IF requests[i].url \in DOMAIN CacheEntries(caches, CACHE_NAME)
              THEN /\ requests'[i].from = "cache"
                   /\ requests'[i].answer =
                         Answered(CacheEntries(caches, CACHE_NAME)[requests[i].url])
              ELSE /\ requests'[i].from # "cache"
                   /\ requests'[i].pc = "fetch"
                   /\ requests'[i].net = 1]_vars

\* C27: a Yes click removes no event but the one of the confirmation
\* opened last, so an event whose deletion was answered No stays in the
\* store; and a No answer leaves the store, the persisted item and
\* sessionNotifiedIds as they were.
C27_YesRemovesOnlyLast ==
    /\ [][lastOp'.op = "confirmYes" /\ yesListeners # <<>> =>
             \A k \in DOMAIN events : \A n \in 1..Len(events[k]) :
                 events[k][n].id # yesListeners[Len(yesListeners)].id =>
                     WithId(ListOf(events', k), events[k][n].id) # {}]_vars
    /\ [][confirmOpen /\ ~confirmOpen' /\ lastOp'.op # "confirmYes" =>
             UNCHANGED <<events, persisted, sessionNotifiedIds>>]_vars

\* the days from origin to the date of key k
DaysFromOrigin(k) ==
    (DaysBeforeYear(k[1]) + DaysBeforeMonth(k[1], k[2]) + k[3])
      - (DaysBeforeYear(origin[1]) + DaysBeforeMonth(origin[1], origin[2]) + origin[3])

\* the reading of the clock at time e.time of the date of key k
DueAt(k, e) == DaysFromOrigin(k) * MsPerDay + MinutesOf(e.time) * MsPerMinute

\* C28: with the scan run at the load and every 60 s after it, an event
\* with a time T and a lead R, in the store under its date from before
\* T - R, has been notified once the clock has reached T.
C28_NoReminderMissed ==
    \A k \in DOMAIN events : \A i \in 1..Len(events[k]) :
        LET e == events[k][i]
        IN  /\ e.time # <<>>
            /\ e.reminder # none
            /\ e.id < DueAt(k, e) - parseInt(e.reminder) * 60 * 1000
            /\ clock >= DueAt(k, e)
            => e.id \in sessionNotifiedIds

\* the same for the events whose time is not the first minute of the day
C28_NoReminderMissedAfterMidnight ==
    \A k \in DOMAIN events : \A i \in 1..Len(events[k]) :
        LET e == events[k][i]
        IN  /\ e.time # <<>>
            /\ e.time # T0000
            /\ e.reminder # none
            /\ e.id < DueAt(k, e) - parseInt(e.reminder) * 60 * 1000
            /\ clock >= DueAt(k, e)
            => e.id \in sessionNotifiedIds

\* C29: every running slider interval is listed in
\* window.panelSliderIntervals, and when the viewer has been closed or a
\* resource other than the gallery has been opened in it, no slider
\* interval is running.
C29_NoIntervalLeftRunning ==
    /\ [](DOMAIN runningIntervals \subseteq Range(panelSliderIntervals))
    /\ [][\/ viewer.visible /\ ~viewer'.visible
          \/ /\ pendingOpens # <<>>
             /\ pendingOpens' = Tail(pendingOpens)
             /\ Head(pendingOpens) # GalleryTemplate
          => DOMAIN runningIntervals' = {}]_vars

\* the 'thinking' indicator of run n of the submit handler is in the list
Thinking(n) ==
    \E i \in 1..Len(chatbotMessages) :
        chatbotMessages[i].run = n /\ chatbotMessages[i].node = "thinking"

\* C30: when a run of the chat's submit handler has finished, by the end
\* of its stream after any number of chunks or by an error, the
\* 'thinking' indicator it appended is not in the message list.
C30_IndicatorRemoved ==
    \A n \in 1..Len(submissions) : submissions[n].pc = "done" => ~Thinking(n)

\* the same for the runs that got a chunk or ended in the catch block
C30_IndicatorRemovedUnlessEmpty ==
    \A n \in 1..Len(submissions) :
        /\ submissions[n].pc = "done"
        /\ \E i \in 1..Len(chatbotMessages) :
              chatbotMessages[i].run = n /\ chatbotMessages[i].node \in {"ai", "error"}
        => ~Thinking(n)

====
